---- MODULE Spec2Model ----
(***************************************************************************)
(* wilfredwake: the service registry's dependency resolver                 *)
(* (ServiceRegistry.resolveWakeOrder) and the orchestrator's wake / health *)
(* state machine (Orchestrator.wake, getStatus, getHealth and the two      *)
(* probe classifiers _performHealthCheck and _checkHealthWithTimeout).     *)
(***************************************************************************)
EXTENDS Integers, Sequences, FiniteSets, TLC

VARIABLES
  registry,       \* ServiceRegistry.registry.services: environment -> services, in the order Object.entries gives
  serviceIndex,   \* ServiceRegistry.services: the index Map, "environment:name" -> definition
  lastLoadTime,   \* ServiceRegistry.lastLoadTime
  lSource,        \* what the last load / loadFromString call was given
  lOut,           \* how that call ended: returned, or the error it threw
  rTarget,        \* target of the last resolveWakeOrder call made directly on the registry
  rEnv,           \* environment of that call
  rOut,           \* what that call produced (a list, or the error it threw)
  pOutcome,       \* HTTP outcome handed to the last direct classifier call
  pHealth,        \* what _performHealthCheck made of it
  pStatus,        \* what _checkHealthWithTimeout made of it
  serviceStates,  \* Orchestrator.serviceStates: service name -> ServiceState
  lastWakeTime,   \* Orchestrator.lastWakeTime: service name -> timestamp
  now,            \* Date.now(), in milliseconds
  calls,          \* per caller: the wake / getStatus / getHealth call it has in progress
  budget,         \* calls and probes that may still be made, and the callers that exist
  server          \* the server's globals: the ServiceRegistry instances it made, the one
                  \* `registry` refers to and the one its orchestrator was built on

vars == <<registry, serviceIndex, lastLoadTime, lSource, lOut,
          rTarget, rEnv, rOut, pOutcome, pHealth, pStatus,
          serviceStates, lastWakeTime, now, calls, budget, server>>

\* the fields of the ServiceRegistry instance besides registry, the record of
\* the last load, and the server's references to its instances
loadVars == <<serviceIndex, lastLoadTime, lSource, lOut, server>>

(***************************************************************************)
(* Bounds of the model.                                                    *)
(***************************************************************************)
MaxServices == 3      \* services declared in one environment
MaxEdges == 2         \* dependsOn entries of one environment, all services together
MaxTargets == 2       \* names in an explicit target list
MaxCalls == 2         \* orchestrator calls made in one behaviour
MaxProbes == 4        \* health probes sent in one behaviour, all calls together
MaxRepeats == 3       \* resolveWakeOrder calls made one after the other on one registry
MaxIntervals == 3     \* poll intervals in the longest monitoring budget
MaxAttempts == 3      \* the largest maxAttempts utils.retry is called with

None == "none"        \* null / undefined, where the value would be a string
Null == [null |-> TRUE]   \* null / undefined, where the value would be an object
NoTime == -1          \* null, where the value would be a timestamp

NamePool == <<"auth", "payment", "consumer", "gateway", "notifier">>
Min(a, b) == IF a < b THEN a ELSE b
ServiceNames == {NamePool[i] : i \in 1..Min(MaxServices, Len(NamePool))}
Ghost == "ghost"      \* a name that no environment declares
Names == ServiceNames \cup {Ghost}

SeqsUpTo(S, n) == UNION {[1..k -> S] : k \in 0..n}
Range(s) == {s[i] : i \in 1..Len(s)}
NamesOf(list) == [i \in 1..Len(list) |-> list[i].name]
IndexOf(list, n) == CHOOSE i \in 1..Len(list) : list[i] = n

(***************************************************************************)
(* ServiceState enumeration.                                               *)
(***************************************************************************)
DEAD == "dead"
WAKING == "waking"
LIVE == "live"
FAILED == "failed"
UNKNOWN == "unknown"
ServiceState == {DEAD, WAKING, LIVE, FAILED, UNKNOWN}

(***************************************************************************)
(* ServiceRegistry lookups.                                                *)
(***************************************************************************)
\* getServices(environment): the entries of the environment's object, [] for an
\* environment the registry does not have and before anything is loaded.
getServices(reg, environment) ==
  IF reg # Null /\ environment \in DOMAIN reg THEN reg[environment] ELSE <<>>

\* getService(serviceName, environment): the definition, or null.
getService(reg, serviceName, environment) ==
  LET env == getServices(reg, environment)
      at == {i \in 1..Len(env) : env[i].name = serviceName}
  IN IF at = {} THEN Null ELSE env[CHOOSE i \in at : TRUE]

\* a target resolution that takes every service of the environment whatever
\* the target names
everyServiceForAnyTarget(reg, target, environment) == getServices(reg, environment)

\* targetServices of resolveWakeOrder: 'all', an array of names, or one name.
\* Names the environment does not have are dropped (.filter(Boolean)).
targetServices(reg, target, environment) ==
  IF target.kind = "all" THEN getServices(reg, environment)
  ELSE IF target.kind = "list"
    THEN LET found == [i \in 1..Len(target.names) |->
                         getService(reg, target.names[i], environment)]
         IN SelectSeq(found, LAMBDA s : s # Null)
  ELSE LET service == getService(reg, target.name, environment)
       IN IF service # Null THEN <<service>> ELSE <<>>

(***************************************************************************)
(* The depth-first traversal of resolveWakeOrder.  st carries the closure's*)
(* visited, tempVisited and result, and threw: the node named by the       *)
(* exception once one has been thrown (it unwinds every enclosing visit).  *)
(***************************************************************************)
RECURSIVE visit(_, _, _, _)
RECURSIVE visitEach(_, _, _, _, _)

\* if (visited.has(serviceName)) return; the mutant also returns on a node
\* that is still in progress, so that no revisit ever throws
visitedOrInProgress(st, serviceName) == serviceName \in st.visited \cup st.tempVisited
alreadyVisited(st, serviceName) == serviceName \in st.visited

\* where a finished node goes in result; the mutant emits it before its dependencies
emitBeforeDependencies(result, serviceName, before) ==
  SubSeq(result, 1, before) \o <<serviceName>> \o SubSeq(result, before + 1, Len(result))
emit(result, serviceName, before) == Append(result, serviceName)

visit(reg, environment, st, serviceName) ==
  IF st.threw # None THEN st
  ELSE IF alreadyVisited(st, serviceName) THEN st
  ELSE IF serviceName \in st.tempVisited THEN [st EXCEPT !.threw = serviceName]
  ELSE
    LET service == getService(reg, serviceName, environment)
        entered == [st EXCEPT !.tempVisited = @ \cup {serviceName}]
        after == IF service # Null
                   THEN visitEach(reg, environment, entered, service.dependsOn, 1)
                   ELSE entered
    IN IF after.threw # None THEN after
       ELSE [after EXCEPT !.tempVisited = @ \ {serviceName},
                          !.visited = @ \cup {serviceName},
                          !.result = emit(@, serviceName, Len(st.result))]

\* for (const x of names) visit(x), from index i on
visitEach(reg, environment, st, names, i) ==
  IF i > Len(names) THEN st
  ELSE visitEach(reg, environment, visit(reg, environment, st, names[i]), names, i + 1)

\* a resolveWakeOrder that refuses a dependsOn name the environment does not
\* declare instead of dropping it from the result
resolveWakeOrderStrict(reg, target, environment) ==
  LET roots == targetServices(reg, target, environment)
      st0 == [visited |-> {}, tempVisited |-> {}, result |-> <<>>, threw |-> None]
      st == visitEach(reg, environment, st0, [i \in 1..Len(roots) |-> roots[i].name], 1)
      unknown == SelectSeq(st.result, LAMBDA n : getService(reg, n, environment) = Null)
  IN IF st.threw # None
       THEN [threw |-> TRUE,
             error |-> [message |-> "Circular dependency detected involving",
                        node |-> st.threw],
             value |-> Null]
     ELSE IF unknown # <<>>
       THEN [threw |-> TRUE,
             error |-> [message |-> "Unknown dependency", node |-> unknown[1]],
             value |-> Null]
       ELSE [threw |-> FALSE,
             error |-> Null,
             value |-> [i \in 1..Len(st.result) |->
                          getService(reg, st.result[i], environment)]]

\* the traversal sets of a call that has not been made
Untraversed == [visited |-> {}, tempVisited |-> {}, result |-> <<>>, threw |-> None]

\* a traversal that starts from the visited set the call before it left behind
keptTraversal(left) == [Untraversed EXCEPT !.visited = left.visited]
\* const visited = new Set(); const tempVisited = new Set(); const result = []:
\* the sets are locals of the call, new on every call, whatever the call
\* before it left in its own
newTraversal(left) == Untraversed

\* resolveWakeOrder(target, environment), called after a call that left its
\* traversal sets as left.  threw tells whether the call threw; then error is
\* the Error (its message names a node) and nothing is returned.  Otherwise
\* value is the returned list of service definitions.  left is what the call
\* leaves in its traversal sets.
resolveWakeOrderAfter(reg, target, environment, left) ==
  LET roots == targetServices(reg, target, environment)
      st0 == newTraversal(left)
      st == visitEach(reg, environment, st0, [i \in 1..Len(roots) |-> roots[i].name], 1)
  IN IF st.threw # None
       THEN [threw |-> TRUE,
             error |-> [message |-> "Circular dependency detected involving",
                        node |-> st.threw],
             value |-> Null,
             left |-> st]
       ELSE [threw |-> FALSE,
             error |-> Null,
             value |-> SelectSeq([i \in 1..Len(st.result) |->
                                    getService(reg, st.result[i], environment)],
                                 LAMBDA s : s # Null),
             left |-> st]

\* resolveWakeOrder(target, environment): [threw, error, value] of the call
resolveWakeOrder(reg, target, environment) ==
  LET call == resolveWakeOrderAfter(reg, target, environment, Untraversed)
  IN [threw |-> call.threw, error |-> call.error, value |-> call.value]

(***************************************************************************)
(* The two probe classifiers of the Orchestrator.                          *)
(*                                                                         *)
(* An outcome is what the HTTP layer does with one GET of the health URL:  *)
(*   [kind |-> "response", status, elapsed]  a response arrived (axios is  *)
(*       called with validateStatus: () => true, so no status throws);     *)
(*   [kind |-> "error", cause, elapsed]      axios.get rejected: timeout,  *)
(*       connection refused, DNS failure.                                  *)
(* elapsed is the time from the request to that event, in milliseconds.    *)
(* A service whose urlOk is FALSE makes new URL(health, url) throw before  *)
(* any request is sent.                                                    *)
(***************************************************************************)
HEALTH_CHECK_TIMEOUT == 5000     \* this.HEALTH_CHECK_TIMEOUT
AXIOS_TIMEOUT == 10000           \* axios.get(..., {timeout: 10000})
NoStatus == -1                   \* statusCode: null

Response(status, elapsed) == [kind |-> "response", status |-> status, elapsed |-> elapsed]
Failure(cause, elapsed) == [kind |-> "error", cause |-> cause, elapsed |-> elapsed]

\* if (response.status >= 500) state = FAILED; the mutant is the policy of
\* SERVICE_STATUS_LOGIC.md, under which no status is a failure
anyStatusIsLive(status) == LIVE
stateOfStatus(status) == IF status >= 500 THEN FAILED ELSE LIVE

\* the try block of _performHealthCheck: [threw, ...]
healthRequest(service, outcome, responseTime) ==
  IF ~service.urlOk THEN [threw |-> TRUE, message |-> "Invalid URL"]
  ELSE IF outcome.kind = "error" THEN [threw |-> TRUE, message |-> outcome.cause]
  ELSE [threw |-> FALSE,
        state |-> stateOfStatus(outcome.status),
        statusCode |-> outcome.status,
        responseTime |-> responseTime,
        error |-> None]

\* _performHealthCheck without its catch: the exception of the request escapes
\* to the caller
probeErrorEscapes(service, outcome, startTime, endTime) ==
  LET tried == healthRequest(service, outcome, endTime - startTime)
  IN IF tried.threw
       THEN [threw |-> TRUE,
             state |-> FAILED,
             statusCode |-> NoStatus,
             responseTime |-> endTime - startTime,
             error |-> tried.message]
       ELSE tried

\* _performHealthCheck(service), started at startTime and settled at endTime
\* with the given outcome.  The catch turns every exception into a DEAD result.
performHealthCheck(service, outcome, startTime, endTime) ==
  LET tried == healthRequest(service, outcome, endTime - startTime)
  IN IF tried.threw
       THEN [threw |-> FALSE,
             state |-> DEAD,
             statusCode |-> NoStatus,
             responseTime |-> endTime - startTime,
             error |-> tried.message]
       ELSE tried

\* if (health.statusCode === 503 || health.statusCode >= 500); the mutant
\* takes only 503 for "still coming up"
onlyUnavailable(statusCode) == statusCode = 503
isServerError(statusCode) == statusCode = 503 \/ statusCode >= 500

\* _checkHealthWithTimeout(service, timeoutSeconds), started at startTime and
\* resumed at endTime: [threw, value], value the ServiceState it returns.
\* timeoutSeconds only feeds overallTimeoutMs, which nothing reads.
checkHealthWithTimeout(service, timeoutSeconds, outcome, startTime, endTime) ==
  LET overallTimeoutMs == timeoutSeconds * 1000
      health == performHealthCheck(service, outcome, startTime, endTime)
      responseTime == endTime - startTime
  IN [threw |-> FALSE,
      value |->
        IF health.threw THEN FAILED                                  \* catch (error)
        ELSE IF health.state = LIVE THEN LIVE
        ELSE IF responseTime > HEALTH_CHECK_TIMEOUT THEN WAKING
        ELSE IF isServerError(health.statusCode) THEN WAKING
        ELSE IF health.state = None THEN UNKNOWN                     \* health.state || UNKNOWN
        ELSE health.state]

(***************************************************************************)
(* Inputs.                                                                 *)
(***************************************************************************)
Envs == {"dev", "staging"}

\* a service definition: url and health are kept as urlOk, whether
\* new URL(service.health, service.url) can be built
Service(name, dependsOn, urlOk) == [name |-> name, dependsOn |-> dependsOn, urlOk |-> urlOk]

\* the first k names of the pool, declared in that order, with every choice of
\* dependsOn lists over those names and one undeclared name (MaxEdges entries
\* in all)
Declared(k) == {NamePool[i] : i \in 1..k}

RECURSIVE DependsOnChoices(_, _, _)
DependsOnChoices(k, i, edges) ==
  IF i = 0 THEN {<<>>}
  ELSE UNION {{Append(first, deps) : first \in DependsOnChoices(k, i - 1, edges - Len(deps))} :
                deps \in SeqsUpTo(Declared(k) \cup {Ghost}, edges)}

EnvironmentsOf(k) ==
  {[i \in 1..k |-> Service(NamePool[i], deps[i], TRUE)] :
     deps \in DependsOnChoices(k, k, MaxEdges)}
ResolveRegistries ==
  {[e \in {"dev"} |-> env] :
     env \in UNION {EnvironmentsOf(k) : k \in 1..Min(MaxServices, Len(NamePool))}}

TargetAll == [kind |-> "all"]
TargetName(n) == [kind |-> "name", name |-> n]
TargetList(ns) == [kind |-> "list", names |-> ns]
Targets ==
  {TargetAll} \cup {TargetName(n) : n \in Names}
              \cup {TargetList(ns) : ns \in SeqsUpTo(Names, MaxTargets)}

(***************************************************************************)
(* Parsed configuration: the value yaml.load / JSON.parse returns, which   *)
(* load and loadFromString validate and keep.  An object lists its         *)
(* properties in the order the document wrote them.                        *)
(***************************************************************************)
JUndefined == [t |-> "undefined"]
JNull == [t |-> "null"]
JBoolean(b) == [t |-> "boolean", b |-> b]
JNumber(n) == [t |-> "number", n |-> n]
JString(s) == [t |-> "string", s |-> s]
JArray(items) == [t |-> "array", items |-> items]
JObject(props) == [t |-> "object", props |-> props]
Prop(key, value) == [key |-> key, value |-> value]

\* !x is false
Truthy(x) ==
  CASE x.t \in {"undefined", "null"} -> FALSE
    [] x.t = "boolean" -> x.b
    [] x.t = "number" -> x.n # 0
    [] x.t = "string" -> x.s # ""
    [] OTHER -> TRUE

\* typeof x === 'object'
TypeofObject(x) == x.t \in {"null", "array", "object"}
IsArray(x) == x.t = "array"

\* x.key, for an x that is neither null nor undefined
Member(x, key) ==
  IF x.t = "object" /\ \E i \in 1..Len(x.props) : x.props[i].key = key
    THEN x.props[CHOOSE i \in 1..Len(x.props) : x.props[i].key = key].value
    ELSE JUndefined

\* the keys that are canonical array indices, and the index each one is
IndexKeys == <<"0", "1", "2", "3">>
ArrayIndex(key) ==
  IF \E i \in 1..Len(IndexKeys) : IndexKeys[i] = key
    THEN (CHOOSE i \in 1..Len(IndexKeys) : IndexKeys[i] = key) - 1
    ELSE -1

\* the order in which an object enumerates its own properties: array-index
\* keys first, ascending, then the other keys in insertion order
OwnProps(props) ==
  LET indices == SelectSeq(props, LAMBDA p : ArrayIndex(p.key) >= 0)
      strings == SelectSeq(props, LAMBDA p : ArrayIndex(p.key) < 0)
  IN SortSeq(indices, LAMBDA p, q : ArrayIndex(p.key) < ArrayIndex(q.key)) \o strings

\* Object.entries(x): [threw, message, value]
ObjectEntries(x) ==
  CASE x.t \in {"undefined", "null"} ->
         [threw |-> TRUE, message |-> "Cannot convert undefined or null to object",
          value |-> <<>>]
    [] x.t = "object" -> [threw |-> FALSE, message |-> None, value |-> OwnProps(x.props)]
    [] x.t = "array" ->
         [threw |-> FALSE, message |-> None,
          value |-> [i \in 1..Len(x.items) |-> Prop(IndexKeys[i], x.items[i])]]
    [] x.t = "string" ->      \* one entry per character
         [threw |-> FALSE, message |-> None,
          value |-> [i \in 1..Len(x.s) |-> Prop(IndexKeys[i], JString("c"))]]
    [] OTHER -> [threw |-> FALSE, message |-> None, value |-> <<>>]

Thrown(message, service, environment) ==
  [threw |-> TRUE, message |-> message, service |-> service, environment |-> environment]
Passed == [threw |-> FALSE]

\* a loop that stops at the first iteration that throws
FirstThrown(checks) ==
  LET bad == {i \in 1..Len(checks) : checks[i].threw}
  IN IF bad = {} THEN Passed ELSE checks[CHOOSE i \in bad : \A j \in bad : i <= j]

\* _validateService(name, service, environment)
validateService(name, service, environment) ==
  IF service.t \in {"undefined", "null"}
    THEN Thrown("Cannot read properties of null (reading 'url')", name, environment)
  ELSE IF ~Truthy(Member(service, "url"))
    THEN Thrown("must have a URL", name, environment)
  ELSE IF ~Truthy(Member(service, "health"))
    THEN Thrown("must define a health check endpoint", name, environment)
  ELSE IF Truthy(Member(service, "dependsOn")) /\ ~IsArray(Member(service, "dependsOn"))
    THEN Thrown("dependsOn must be an array", name, environment)
  ELSE Passed

\* the body of _validateRegistry's loop for one environment
validateEnvironment(env, envServices) ==
  IF ~TypeofObject(envServices) \/ IsArray(envServices)
    THEN Thrown("Services in environment must be an object", None, env)
  ELSE LET entries == ObjectEntries(envServices)
       IN IF entries.threw THEN Thrown(entries.message, None, env)
          ELSE FirstThrown([i \in 1..Len(entries.value) |->
                              validateService(entries.value[i].key,
                                              entries.value[i].value, env)])

\* _validateRegistry(registry)
validateRegistry(parsed) ==
  IF ~Truthy(parsed) THEN Thrown("Registry is empty or invalid", None, None)
  ELSE IF ~Truthy(Member(parsed, "services"))
    THEN Thrown("Registry must contain \"services\" key", None, None)
  ELSE LET envs == ObjectEntries(Member(parsed, "services")).value
       IN FirstThrown([i \in 1..Len(envs) |->
                         validateEnvironment(envs[i].key, envs[i].value)])

\* new URL(service.health, service.url) can be built
ValidUrls == {"https://auth.test", "https://payment.test"}
urlOkOf(svc) == Member(svc, "url").t = "string" /\ Member(svc, "url").s \in ValidUrls

\* service.dependsOn || []
dependsOnOf(svc) ==
  IF Truthy(Member(svc, "dependsOn")) THEN Member(svc, "dependsOn").items ELSE <<>>

\* this.registry = registry, as getServices and getService read it: per
\* environment the entries of its object, each definition with its name
loaded(parsed) ==
  LET envs == ObjectEntries(Member(parsed, "services")).value
      valueOf(e) == envs[CHOOSE i \in 1..Len(envs) : envs[i].key = e].value
  IN [e \in {envs[i].key : i \in 1..Len(envs)} |->
        LET entries == ObjectEntries(valueOf(e)).value
        IN [j \in 1..Len(entries) |->
              Service(entries[j].key, dependsOnOf(entries[j].value),
                      urlOkOf(entries[j].value))]]

\* _indexServices(registry): this.services.clear(), then one entry per service
\* under the key `${environment}:${name}`
IndexKey(environment, name) == environment \o ":" \o name
indexServices(reg) ==
  LET pairs == {<<e, i>> : e \in DOMAIN reg, i \in 1..MaxServices + 1}
      at == {p \in pairs : p[2] <= Len(reg[p[1]])}
  IN [k \in {IndexKey(p[1], reg[p[1]][p[2]].name) : p \in at} |->
        LET p == CHOOSE q \in at : IndexKey(q[1], reg[q[1]][q[2]].name) = k
        IN [dependsOn |-> reg[p[1]][p[2]].dependsOn, urlOk |-> reg[p[1]][p[2]].urlOk]]

\* the ServiceRegistry instance
Instance == [registry |-> registry, services |-> serviceIndex, lastLoadTime |-> lastLoadTime]
Unparsable == [t |-> "unparsable"]      \* content the parser rejects
Missing == [t |-> "missing"]            \* no file at the path

\* the try block of load / loadFromString once the content is read and the
\* format chosen: parse, validate, assign, index, stamp
parseAndStore(inst, content, supported, time) ==
  LET tried == IF ~supported THEN Thrown("Unsupported format", None, None)
               ELSE IF content = Unparsable THEN Thrown("YAMLException", None, None)
               ELSE validateRegistry(content)
  IN IF tried.threw
       THEN [threw |-> TRUE, error |-> tried, instance |-> inst]
       ELSE [threw |-> FALSE, error |-> Null,
             instance |-> [registry |-> loaded(content),
                           services |-> indexServices(loaded(content)),
                           lastLoadTime |-> time]]

\* a load that empties the index before it validates
loadClearsFirst(inst, content, format, time) ==
  LET out == parseAndStore(inst, content, format \in {"yaml", "json"}, time)
  IN IF out.threw THEN [out EXCEPT !.instance.services = <<>>] ELSE out

\* loadFromString(content, format) at the given time: [threw, error, instance]
loadFromString(inst, content, format, time) ==
  parseAndStore(inst, content, format \in {"yaml", "json"}, time)

\* load(filePath) at the given time, file being what is at the path
load(inst, filePath, file, time) ==
  IF file = Missing
    THEN [threw |-> TRUE, error |-> Thrown("ENOENT", None, None), instance |-> inst]
    ELSE parseAndStore(inst, file, filePath.ext \in {".yaml", ".yml", ".json"}, time)

NoCall == [op |-> "idle", pc |-> "idle"]
\* the registry and the orchestrator used directly, without the server
NoServer == [heap |-> <<>>, registry |-> 0, orchestrator |-> 0]
Callers == {1, 2}

\* the state right after new ServiceRegistry() + load, new Orchestrator(registry)
Fresh(reg, ncalls, probes, callers) ==
  /\ registry = reg
  /\ serviceIndex = indexServices(reg)
  /\ lastLoadTime = 0
  /\ lSource = Null /\ lOut = Null /\ server = NoServer
  /\ rTarget = Null /\ rEnv = None /\ rOut = Null
  /\ pOutcome = Null /\ pHealth = Null /\ pStatus = None
  /\ serviceStates = <<>> /\ lastWakeTime = <<>>
  /\ now = 0
  /\ calls = [c \in Callers |-> NoCall]
  /\ budget = [calls |-> ncalls, probes |-> probes, callers |-> callers]

(***************************************************************************)
(* The resolver on its own: any registry of the bounded shape, and one     *)
(* resolveWakeOrder call on it with any target.                            *)
(***************************************************************************)
InitResolve == \E reg \in ResolveRegistries : Fresh(reg, 0, 0, {})

Resolve(target, environment) ==
  /\ rOut = Null
  /\ rTarget' = target
  /\ rEnv' = environment
  /\ rOut' = resolveWakeOrder(registry, target, environment)
  /\ UNCHANGED <<loadVars, registry, pOutcome, pHealth, pStatus, serviceStates,
                 lastWakeTime, now, calls, budget>>

NextResolve ==
  \/ \E target \in Targets : Resolve(target, "dev")
  \/ Resolve(TargetAll, "staging")      \* an environment the registry does not have

SpecResolve == InitResolve /\ [][NextResolve]_vars

(***************************************************************************)
(* The resolver called again and again on one registry.  Here rTarget,     *)
(* rEnv and rOut list the calls made so far, in the order they were made;  *)
(* each entry of rOut also holds what the call left in its traversal sets. *)
(***************************************************************************)
InitRepeat ==
  /\ registry \in ResolveRegistries
  /\ serviceIndex = indexServices(registry)
  /\ lastLoadTime = 0
  /\ lSource = Null /\ lOut = Null /\ server = NoServer
  /\ rTarget = <<>> /\ rEnv = <<>> /\ rOut = <<>>
  /\ pOutcome = Null /\ pHealth = Null /\ pStatus = None
  /\ serviceStates = <<>> /\ lastWakeTime = <<>>
  /\ now = 0
  /\ calls = [c \in Callers |-> NoCall]
  /\ budget = [calls |-> MaxRepeats, probes |-> 0, callers |-> {}]

ResolveAgain(target, environment) ==
  /\ budget.calls > 0
  /\ LET left == IF rOut = <<>> THEN Untraversed ELSE rOut[Len(rOut)].left
     IN rOut' = Append(rOut, resolveWakeOrderAfter(registry, target, environment, left))
  /\ rTarget' = Append(rTarget, target)
  /\ rEnv' = Append(rEnv, environment)
  /\ budget' = [budget EXCEPT !.calls = @ - 1]
  /\ UNCHANGED <<loadVars, registry, pOutcome, pHealth, pStatus, serviceStates,
                 lastWakeTime, now, calls>>

RepeatTargets == {TargetAll, TargetName("payment"), TargetList(<<"consumer", "auth">>)}

NextRepeat == \E target \in RepeatTargets : ResolveAgain(target, "dev")

SpecRepeat == InitRepeat /\ [][NextRepeat]_vars

(***************************************************************************)
(* The registry on its own: a new ServiceRegistry, loads of well-formed    *)
(* and malformed configurations, and lookups between the loads.            *)
(***************************************************************************)
\* a service definition with these properties; an undefined one is left out
Def(url, health, dependsOn) ==
  JObject(SelectSeq(<<Prop("url", url), Prop("health", health),
                      Prop("dependsOn", dependsOn)>>,
                    LAMBDA p : p.value # JUndefined))

GoodUrl == JString("https://auth.test")
Health == JString("/health")
Plain == Def(GoodUrl, Health, JUndefined)

\* definitions that pass validation as the code runs it
PassingDefs ==
  {Plain,
   Def(JString("not a url"), Health, JArray(<<>>)),
   Def(GoodUrl, Health, JArray(<<"auth", Ghost>>)),
   Def(GoodUrl, Health, JNull),
   Def(GoodUrl, Health, JBoolean(FALSE))}

\* definitions, and things in the place of one, that it rejects
FailingDefs ==
  {Def(JUndefined, Health, JUndefined),
   Def(JString(""), Health, JArray(<<>>)),
   Def(GoodUrl, JUndefined, JArray(<<>>)),
   Def(GoodUrl, Health, JString("auth")),
   Def(GoodUrl, Health, JNumber(2)),
   JNull,
   JString("up")}

\* the service names of an environment in the order the document declares them
KeyOrders ==
  {ks \in {<<"auth">>, <<"payment", "auth">>, <<"2", "1">>, <<"auth", "1">>,
           <<"payment", "2", "auth">>} : Len(ks) <= MaxServices}

\* environments: every service but the last plain, the last one any definition
Environments ==
  {JObject([i \in 1..Len(ks) |-> Prop(ks[i], IF i < Len(ks) THEN Plain ELSE last)]) :
     ks \in KeyOrders, last \in PassingDefs \cup FailingDefs}

\* things in the place of an environment
NotEnvironments == {JNull, JArray(<<>>), JArray(<<Plain>>), JString("dev"), JNumber(0)}

Root(servicesValue) == JObject(<<Prop("services", servicesValue)>>)

Configs ==
  {JUndefined, JNull, JObject(<<>>), JObject(<<Prop("groups", JObject(<<>>))>>),
   Root(JNull), Root(JNumber(5)), Root(JString("dev")), Root(JArray(<<>>)),
   Root(JObject(<<>>))}
    \cup {Root(JObject(<<Prop("dev", env)>>)) : env \in Environments \cup NotEnvironments}
    \cup {Root(JObject(<<Prop("staging", JObject(<<Prop("payment", Plain)>>)),
                         Prop("dev", env)>>)) :
            env \in {JObject(<<Prop("auth", Plain)>>), JArray(<<>>),
                     JObject(<<Prop("auth", Def(GoodUrl, JUndefined, JUndefined))>>)}}

\* new ServiceRegistry()
InitLoad ==
  /\ registry = Null
  /\ serviceIndex = <<>>
  /\ lastLoadTime = NoTime
  /\ lSource = Null /\ lOut = Null /\ server = NoServer
  /\ rTarget = Null /\ rEnv = None /\ rOut = Null
  /\ pOutcome = Null /\ pHealth = Null /\ pStatus = None
  /\ serviceStates = <<>> /\ lastWakeTime = <<>>
  /\ now = 0
  /\ calls = [c \in Callers |-> NoCall]
  /\ budget = [calls |-> MaxCalls, probes |-> 0, callers |-> {}]

\* what a load call leaves behind, some time after the call before it
Stored(source, out) ==
  /\ registry' = out.instance.registry
  /\ serviceIndex' = out.instance.services
  /\ lastLoadTime' = out.instance.lastLoadTime
  /\ lSource' = source
  /\ lOut' = [threw |-> out.threw, error |-> out.error]
  /\ now' = now + 1
  /\ budget' = [budget EXCEPT !.calls = @ - 1]
  /\ rTarget' = Null /\ rEnv' = None /\ rOut' = Null
  /\ UNCHANGED <<pOutcome, pHealth, pStatus, serviceStates, lastWakeTime, calls, server>>

LoadFromString(content, format) ==
  /\ budget.calls > 0
  /\ Stored([op |-> "loadFromString", content |-> content, format |-> format],
            loadFromString(Instance, content, format, now + 1))

Load(filePath, file) ==
  /\ budget.calls > 0
  /\ Stored([op |-> "load", content |-> file, format |-> filePath.ext],
            load(Instance, filePath, file, now + 1))

\* registry.getServices(environment), called directly
GetServices(environment) ==
  /\ rOut = Null
  /\ rTarget' = [kind |-> "getServices"]
  /\ rEnv' = environment
  /\ rOut' = [threw |-> FALSE, error |-> Null, value |-> getServices(registry, environment)]
  /\ UNCHANGED <<loadVars, registry, pOutcome, pHealth, pStatus, serviceStates,
                 lastWakeTime, now, calls, budget>>

\* registry.getService(serviceName, environment), called directly
GetService(serviceName, environment) ==
  /\ rOut = Null
  /\ rTarget' = [kind |-> "getService", name |-> serviceName]
  /\ rEnv' = environment
  /\ rOut' = [threw |-> FALSE, error |-> Null,
              value |-> getService(registry, serviceName, environment)]
  /\ UNCHANGED <<loadVars, registry, pOutcome, pHealth, pStatus, serviceStates,
                 lastWakeTime, now, calls, budget>>

\* what load finds at the path
Files ==
  {Missing, Unparsable, JObject(<<>>),
   Root(JObject(<<Prop("dev", JObject(<<Prop("payment", Plain), Prop("auth", Plain)>>))>>)),
   Root(JObject(<<Prop("dev", JObject(<<Prop("auth", Def(GoodUrl, JUndefined, JUndefined))>>))>>))}

LoadNames == UNION {Range(ks) : ks \in KeyOrders} \cup {Ghost}

NextLoad ==
  \/ \E content \in Configs \cup {Unparsable} : LoadFromString(content, "yaml")
  \/ LoadFromString(Root(JObject(<<Prop("dev", JObject(<<Prop("auth", Plain)>>))>>)), "xml")
  \/ \E file \in Files : Load([base |-> "services", ext |-> ".json"], file)
  \/ Load([base |-> "services", ext |-> ".txt"],
          Root(JObject(<<Prop("dev", JObject(<<Prop("auth", Plain)>>))>>)))
  \/ \E environment \in {"dev", "prod"} : GetServices(environment)
  \/ \E serviceName \in LoadNames, environment \in {"dev", "staging"} :
       GetService(serviceName, environment)
  \/ Resolve(TargetAll, "dev")

SpecLoad == InitLoad /\ [][NextLoad]_vars

(***************************************************************************)
(* The classifiers on their own: one service with a well-formed URL and    *)
(* one without, and any HTTP outcome.                                      *)
(***************************************************************************)
Statuses == {200, 204, 301, 302, 400, 401, 404, 429, 499, 500, 501, 502, 503, 504, 599}
ResponseTimes == {0, 120, HEALTH_CHECK_TIMEOUT - 1, HEALTH_CHECK_TIMEOUT,
                  HEALTH_CHECK_TIMEOUT + 1, AXIOS_TIMEOUT - 1}
ProbeOutcomes ==
  {Response(st, ms) : st \in Statuses, ms \in ResponseTimes}
    \cup {Failure("timeout of 10000ms exceeded", AXIOS_TIMEOUT)}
    \cup {Failure(cause, ms) : cause \in {"ECONNREFUSED", "ENOTFOUND"},
                               ms \in {1, HEALTH_CHECK_TIMEOUT, HEALTH_CHECK_TIMEOUT + 1}}

\* the outcomes the orchestrator's probes are given
WakeOutcomes ==
  {Response(200, 120), Response(404, HEALTH_CHECK_TIMEOUT + 1), Response(503, 120),
   Failure("timeout of 10000ms exceeded", AXIOS_TIMEOUT), Failure("ECONNREFUSED", 1)}

ProbeRegistry ==
  [e \in {"dev"} |-> <<Service("auth", <<>>, TRUE), Service("payment", <<>>, FALSE)>>]

InitProbe == Fresh(ProbeRegistry, 0, 0, {})

\* orchestrator._performHealthCheck(service) and
\* orchestrator._checkHealthWithTimeout(service, timeoutSeconds) on one outcome
Classify(service, timeoutSeconds, outcome) ==
  /\ pOutcome' = [service |-> service, outcome |-> outcome]
  /\ pHealth' = performHealthCheck(service, outcome, now, now + outcome.elapsed)
  /\ pStatus' = checkHealthWithTimeout(service, timeoutSeconds, outcome,
                                       now, now + outcome.elapsed).value
  /\ UNCHANGED <<loadVars, registry, rTarget, rEnv, rOut, serviceStates, lastWakeTime,
                 now, calls, budget>>

NextProbe ==
  \E i \in 1..Len(getServices(registry, "dev")), timeoutSeconds \in {5, 300},
     outcome \in ProbeOutcomes :
       Classify(getServices(registry, "dev")[i], timeoutSeconds, outcome)

SpecProbe == InitProbe /\ [][NextProbe]_vars

(***************************************************************************)
(* The Orchestrator.  serviceStates and lastWakeTime are Maps keyed by     *)
(* service name: functions whose domain is the set of keys.                *)
(*                                                                         *)
(* A call runs to its next await without interruption.  wake, getStatus    *)
(* and getHealth await only the probe, so each has two kinds of step: the  *)
(* call itself, up to the first request, and the settling of a request,    *)
(* which runs the rest of the loop body and the next iteration up to the   *)
(* next request (or returns).  calls[c] keeps the locals of caller c's     *)
(* call; issued and outcomes record which probes it sent and what became   *)
(* of them.                                                                *)
(***************************************************************************)
Put(map, key, value) ==
  [k \in DOMAIN map \cup {key} |-> IF k = key THEN value ELSE map[k]]
Get(map, key, default) == IF key \in DOMAIN map THEN map[key] ELSE default

\* a map that keeps the first state written for a service
keepFirstState(states, serviceName, state) ==
  IF serviceName \in DOMAIN states THEN states ELSE Put(states, serviceName, state)
\* this.serviceStates.set(serviceName, state)
setServiceState(states, serviceName, state) == Put(states, serviceName, state)
\* this.lastWakeTime.set(serviceName, timestamp); the mutant keeps the time of
\* the first wake
recordFirstWakeTime(times, serviceName, timestamp) ==
  IF serviceName \in DOMAIN times THEN times ELSE Put(times, serviceName, timestamp)
recordLastWakeTime(times, serviceName, timestamp) == Put(times, serviceName, timestamp)

\* results.every(r => r.status === LIVE); the mutant asks for one live service
someLive(results) == \E i \in 1..Len(results) : results[i].status = LIVE
allLive(results) == \A i \in 1..Len(results) : results[i].status = LIVE

\* what wake returns when resolveWakeOrder threw; the mutant treats the failed
\* resolution like an empty order
resolutionSwallowed(error) ==
  [success |-> TRUE, error |-> Null, services |-> <<>>, totalDuration |-> 0]
resolutionFailed(error) ==
  [success |-> FALSE, error |-> error, services |-> <<>>, totalDuration |-> NoTime]

\* for (const service of services): after entry i the loop goes on while
\* services are left; the mutant leaves the loop at the first service not LIVE
untilFirstFailure(order, i, entry) == i < Len(order) /\ entry.status = LIVE
moreServices(order, i, entry) == i < Len(order)

CanStart(c) ==
  /\ c \in budget.callers
  /\ budget.calls > 0
  /\ calls[c].op = "idle" \/ calls[c].pc = "done"

Settling(c, op) == calls[c].op = op /\ calls[c].pc = "probing"

\* the outcomes a probe of this service can have: without a URL no request
\* is sent and new URL throws at once
OutcomesFor(service, outcomes) ==
  IF service.urlOk THEN outcomes ELSE {Failure("Invalid URL", 0)}

Returned(call, ret) == [call EXCEPT !.pc = "done", !.ret = ret]

\* wake(target, environment, {timeout}) with every probe sent at once
\* (services.map(...) awaited together) instead of one after the other
WakeAllAtOnce(c, target, environment, timeout) ==
  /\ CanStart(c)
  /\ LET resolved == resolveWakeOrder(registry, target, environment)
     IN /\ ~resolved.threw
        /\ Len(resolved.value) > 0
        /\ budget.probes >= Len(resolved.value)
        /\ serviceStates' = [n \in DOMAIN serviceStates \cup Range(NamesOf(resolved.value)) |->
                               IF n \in Range(NamesOf(resolved.value)) THEN DEAD
                               ELSE serviceStates[n]]
        /\ lastWakeTime' = [n \in DOMAIN lastWakeTime \cup Range(NamesOf(resolved.value)) |->
                              IF n \in Range(NamesOf(resolved.value)) THEN now
                              ELSE lastWakeTime[n]]
        /\ calls' = [calls EXCEPT ![c] =
                       [op |-> "wake", pc |-> "probing", target |-> target,
                        environment |-> environment, timeout |-> timeout,
                        order |-> resolved.value, startTime |-> now,
                        serviceStartTime |-> now, probeStart |-> now,
                        issued |-> NamesOf(resolved.value), outcomes |-> <<>>,
                        results |-> <<>>, ret |-> Null]]
        /\ budget' = [budget EXCEPT !.calls = @ - 1, !.probes = @ - Len(resolved.value)]
  /\ UNCHANGED <<loadVars, registry, rTarget, rEnv, rOut, pOutcome, pHealth, pStatus, now>>

\* a report that keeps a service LIVE once it has been recorded LIVE
liveStaysLive(recorded, probed) == IF recorded = LIVE THEN LIVE ELSE probed
\* the state an entry of wake, getStatus or getHealth carries: what the probe
\* returned; this.serviceStates is not read
reportedState(recorded, probed) == probed

\* wake(target, environment, {wait, timeout}), up to the first await
Wake(c, target, environment, timeout) ==
  /\ CanStart(c)
  /\ LET resolved == resolveWakeOrder(registry, target, environment)
         call == [op |-> "wake", pc |-> "probing", target |-> target,
                  environment |-> environment, timeout |-> timeout,
                  order |-> <<>>, startTime |-> now, serviceStartTime |-> now,
                  probeStart |-> now, issued |-> <<>>, outcomes |-> <<>>,
                  results |-> <<>>, ret |-> Null]
     IN IF resolved.threw
          THEN /\ calls' = [calls EXCEPT ![c] = Returned(call, resolutionFailed(resolved.error))]
               /\ budget' = [budget EXCEPT !.calls = @ - 1]
               /\ UNCHANGED <<serviceStates, lastWakeTime>>
        ELSE IF Len(resolved.value) = 0
          THEN /\ calls' = [calls EXCEPT ![c] =
                              Returned(call, [success |-> TRUE, error |-> Null,
                                              services |-> <<>>, totalDuration |-> 0])]
               /\ budget' = [budget EXCEPT !.calls = @ - 1]
               /\ UNCHANGED <<serviceStates, lastWakeTime>>
        ELSE LET service == resolved.value[1]
             IN /\ budget.probes >= Len(resolved.value)
                /\ serviceStates' = setServiceState(serviceStates, service.name, DEAD)
                /\ lastWakeTime' = recordLastWakeTime(lastWakeTime, service.name, now)
                /\ calls' = [calls EXCEPT ![c] =
                               [call EXCEPT !.order = resolved.value,
                                            !.issued = <<service.name>>]]
                /\ budget' = [budget EXCEPT !.calls = @ - 1, !.probes = @ - Len(resolved.value)]
  /\ UNCHANGED <<loadVars, registry, rTarget, rEnv, rOut, pOutcome, pHealth, pStatus, now>>

\* wake resumed when its probe settles: lines 97-122 for this service, then
\* the next iteration up to its probe, or lines 125-133
WakeSettle(c, outcome) ==
  /\ Settling(c, "wake")
  /\ LET call == calls[c]
         i == Len(call.results) + 1
         service == call.order[i]
         end == call.probeStart + outcome.elapsed
         checked == checkHealthWithTimeout(service, call.timeout, outcome,
                                           call.probeStart, end)
         duration == end - call.serviceStartTime
         entry == [name |-> service.name,
                   status |-> reportedState(Get(serviceStates, service.name, None),
                                            IF checked.threw THEN FAILED ELSE checked.value),
                   duration |-> duration,
                   error |-> IF checked.threw THEN checked.message ELSE None,
                   lastWakeTime |-> Get(lastWakeTime, service.name, NoTime)]
         recorded == setServiceState(serviceStates, service.name, entry.status)
         results == Append(call.results, entry)
         outcomes == Append(call.outcomes, outcome)
     IN /\ outcome \in OutcomesFor(service, WakeOutcomes)
        /\ end >= now         \* the probes of other callers settle in the order of their times
        /\ now' = end
        /\ IF moreServices(call.order, i, entry)
             THEN LET next == call.order[i + 1]
                  IN /\ serviceStates' = setServiceState(recorded, next.name, DEAD)
                     /\ lastWakeTime' = recordLastWakeTime(lastWakeTime, next.name, end)
                     /\ calls' = [calls EXCEPT ![c] =
                                    [call EXCEPT !.results = results,
                                                 !.outcomes = outcomes,
                                                 !.serviceStartTime = end,
                                                 !.probeStart = end,
                                                 !.issued = Append(@, next.name)]]
             ELSE /\ serviceStates' = recorded
                  /\ UNCHANGED lastWakeTime
                  /\ calls' = [calls EXCEPT ![c] =
                                 Returned([call EXCEPT !.results = results,
                                                       !.outcomes = outcomes],
                                          [success |-> allLive(results),
                                           error |-> Null,
                                           services |-> results,
                                           totalDuration |-> end - call.startTime])]
  /\ UNCHANGED <<loadVars, registry, rTarget, rEnv, rOut, pOutcome, pHealth, pStatus, budget>>

\* serviceName ? [getService(serviceName, environment)].filter(Boolean)
\*             : getServices(environment)
servicesOf(reg, serviceName, environment) ==
  IF serviceName # None
    THEN SelectSeq(<<getService(reg, serviceName, environment)>>, LAMBDA x : x # Null)
    ELSE getServices(reg, environment)

\* getStatus(serviceName, environment) and getHealth(serviceName, environment),
\* up to the first await
Query(c, op, serviceName, environment) ==
  /\ CanStart(c)
  /\ LET services == servicesOf(registry, serviceName, environment)
         call == [op |-> op, pc |-> "probing", serviceName |-> serviceName,
                  environment |-> environment, timeout |-> 5,
                  order |-> services, startTime |-> now, serviceStartTime |-> now,
                  probeStart |-> now, issued |-> <<>>, outcomes |-> <<>>,
                  results |-> <<>>, ret |-> Null]
     IN IF Len(services) = 0
          THEN /\ calls' = [calls EXCEPT ![c] =
                              Returned(call, [services |-> <<>>, timestamp |-> now])]
               /\ budget' = [budget EXCEPT !.calls = @ - 1]
          ELSE /\ budget.probes >= Len(services)
               /\ calls' = [calls EXCEPT ![c] = [call EXCEPT !.issued = <<services[1].name>>]]
               /\ budget' = [budget EXCEPT !.calls = @ - 1, !.probes = @ - Len(services)]
  /\ UNCHANGED <<loadVars, registry, rTarget, rEnv, rOut, pOutcome, pHealth, pStatus,
                 serviceStates, lastWakeTime, now>>

GetStatus(c, serviceName, environment) == Query(c, "status", serviceName, environment)
GetHealth(c, serviceName, environment) == Query(c, "health", serviceName, environment)

\* a getStatus / getHealth that also stores what it found as the service's
\* recorded state
QuerySettleRecording(c, entry, outcome, end) ==
  LET call == calls[c]
      i == Len(call.results) + 1
      results == Append(call.results, entry)
      outcomes == Append(call.outcomes, outcome)
  IN /\ now' = end
     /\ serviceStates' = setServiceState(serviceStates, entry.name, entry.status)
     /\ IF i < Len(call.order)
          THEN calls' = [calls EXCEPT ![c] =
                           [call EXCEPT !.results = results,
                                        !.outcomes = outcomes,
                                        !.probeStart = end,
                                        !.issued = Append(@, call.order[i + 1].name)]]
          ELSE calls' = [calls EXCEPT ![c] =
                           Returned([call EXCEPT !.results = results,
                                                 !.outcomes = outcomes],
                                    [services |-> results, timestamp |-> end])]
     /\ UNCHANGED <<loadVars, registry, rTarget, rEnv, rOut, pOutcome, pHealth, pStatus,
                    lastWakeTime, budget>>

\* the rest of a getStatus / getHealth iteration once its probe has settled
\* with this entry, and the next iteration up to its probe, or the return
QuerySettle(c, entry, outcome, end) ==
  LET call == calls[c]
      i == Len(call.results) + 1
      results == Append(call.results, entry)
      outcomes == Append(call.outcomes, outcome)
  IN /\ now' = end
     /\ IF i < Len(call.order)
          THEN calls' = [calls EXCEPT ![c] =
                           [call EXCEPT !.results = results,
                                        !.outcomes = outcomes,
                                        !.probeStart = end,
                                        !.issued = Append(@, call.order[i + 1].name)]]
          ELSE calls' = [calls EXCEPT ![c] =
                           Returned([call EXCEPT !.results = results,
                                                 !.outcomes = outcomes],
                                    [services |-> results, timestamp |-> end])]
     /\ UNCHANGED <<loadVars, registry, rTarget, rEnv, rOut, pOutcome, pHealth, pStatus,
                    serviceStates, lastWakeTime, budget>>

\* getStatus resumed when its probe settles
StatusSettle(c, outcome) ==
  /\ Settling(c, "status")
  /\ LET call == calls[c]
         service == call.order[Len(call.results) + 1]
         end == now + outcome.elapsed
         status == checkHealthWithTimeout(service, 5, outcome, call.probeStart, end)
     IN /\ outcome \in OutcomesFor(service, WakeOutcomes)
        /\ QuerySettle(c, [name |-> service.name,
                           status |-> reportedState(Get(serviceStates, service.name, None),
                                                    status.value),
                           lastWakeTime |-> Get(lastWakeTime, service.name, NoTime)],
                       outcome, end)

\* getHealth resumed when its probe settles
HealthSettle(c, outcome) ==
  /\ Settling(c, "health")
  /\ LET call == calls[c]
         service == call.order[Len(call.results) + 1]
         end == now + outcome.elapsed
         health == performHealthCheck(service, outcome, call.probeStart, end)
     IN /\ outcome \in OutcomesFor(service, WakeOutcomes)
        /\ QuerySettle(c, [name |-> service.name,
                           status |-> reportedState(Get(serviceStates, service.name, None),
                                                    health.state),
                           statusCode |-> health.statusCode,
                           responseTime |-> health.responseTime,
                           lastChecked |-> end,
                           lastWakeTime |-> Get(lastWakeTime, service.name, NoTime),
                           error |-> health.error,
                           dependencies |-> service.dependsOn],
                       outcome, end)

(***************************************************************************)
(* One orchestrator over a registry with two environments, used by one     *)
(* caller at a time.                                                       *)
(***************************************************************************)
WakeRegistry ==
  [e \in Envs |->
     IF e = "dev"
       THEN <<Service("auth", <<>>, TRUE),
              Service("payment", <<"auth", Ghost>>, TRUE),
              Service("consumer", <<"payment">>, TRUE)>>
       ELSE <<Service("auth", <<"payment">>, TRUE),
              Service("payment", <<"auth">>, TRUE),
              Service("consumer", <<>>, FALSE)>>]

\* the groups section of the registry document: group name -> member services.
\* The registry keeps it with the document; no lookup reads it.
Groups == [payments |-> <<"payment", "consumer">>]

WakeTargets ==
  {TargetAll} \cup {TargetName(n) : n \in {"payment", "consumer", Ghost, "payments"}}
              \cup {TargetList(<<"auth", Ghost, "auth">>)}
QueryNames == {None, "payment", Ghost}
Timeouts == {5, 300}

Init == Fresh(WakeRegistry, MaxCalls, MaxProbes, {1})

Next ==
  \E c \in Callers :
    \/ \E target \in WakeTargets, environment \in Envs, timeout \in Timeouts :
         Wake(c, target, environment, timeout)
    \/ \E outcome \in WakeOutcomes \cup {Failure("Invalid URL", 0)} : WakeSettle(c, outcome)
    \/ \E serviceName \in QueryNames, environment \in Envs :
         GetStatus(c, serviceName, environment)
    \/ \E outcome \in WakeOutcomes \cup {Failure("Invalid URL", 0)} : StatusSettle(c, outcome)
    \/ \E serviceName \in QueryNames, environment \in Envs :
         GetHealth(c, serviceName, environment)
    \/ \E outcome \in WakeOutcomes \cup {Failure("Invalid URL", 0)} : HealthSettle(c, outcome)

Spec == Init /\ [][Next]_vars

(***************************************************************************)
(* One orchestrator used by two callers at once: their wakes interleave at *)
(* the awaits of their probes, each probe settling at its own time.        *)
(***************************************************************************)
ConcurrentRegistry ==
  [e \in {"dev"} |-> <<Service("payment", <<"auth">>, TRUE), Service("auth", <<>>, TRUE)>>]
ConcurrentTargets == {TargetAll, TargetName("auth")}
ConcurrentOutcomes ==
  {Response(200, 120), Response(503, 120), Failure("ECONNREFUSED", 1)}

InitConcurrent == Fresh(ConcurrentRegistry, MaxCalls, MaxProbes, Callers)

NextConcurrent ==
  \E c \in Callers :
    \/ \E target \in ConcurrentTargets : Wake(c, target, "dev", 300)
    \/ \E outcome \in ConcurrentOutcomes : WakeSettle(c, outcome)

SpecConcurrent == InitConcurrent /\ [][NextConcurrent]_vars

(***************************************************************************)
(* The monitor loop of the wake command, _monitorServicesForDuration: the  *)
(* caller's call record holds its locals, the polls that have settled and  *)
(* the warnings it has logged.  A status fetch is answered (2xx with a     *)
(* services list), malformed (2xx with a body the display code throws on)  *)
(* or rejected (another status, a network error, the 5-second timeout).    *)
(***************************************************************************)
pollInterval == 10000
STATUS_TIMEOUT == 5000

Fetched(kind, ms) == [kind |-> kind, elapsed |-> ms]
FetchOutcomes ==
  {Fetched("answered", 120), Fetched("malformed", 120), Fetched("rejected", 1),
   Fetched("rejected", STATUS_TIMEOUT)}

\* while (Date.now() < endTime), and the same test before the sleep
budgetLeft(time, endTime) == time < endTime

\* a loop whose poll is outside any try: the error of the poll ends the call
pollErrorEscapes(m, outcome) ==
  IF outcome.kind = "answered" THEN m ELSE [m EXCEPT !.pc = "thrown"]
\* the try / catch around a poll: the table is shown, or the error is logged
pollShown(m, outcome) ==
  IF outcome.kind = "answered" THEN m
  ELSE [m EXCEPT !.warnings = Append(@, "Status check failed")]

\* a final fetch outside any try
finalErrorEscapes(m, outcome) ==
  IF outcome.kind = "answered" THEN m ELSE [m EXCEPT !.pc = "thrown"]
\* the try / catch around the final fetch
finalShown(m, outcome) ==
  IF outcome.kind = "answered" THEN m
  ELSE [m EXCEPT !.warnings = Append(@, "Could not fetch final status")]

\* the query of a status request of the monitor, in a poll and in the final
\* fetch alike: params: { environment: env }, whatever the wake target was
statusParams(env, wakeTarget) == [environment |-> env, service |-> None]

\* the top of the while loop at the given time: the next poll is sent, or the
\* loop is left and the final fetch is sent
loopTop(m, time) ==
  IF budgetLeft(time, m.endTime)
    THEN [m EXCEPT !.pc = "polling", !.pollCount = @ + 1, !.sent = Append(@, time),
                   !.requests = Append(@, statusParams(m.env, m.wakeTarget))]
    ELSE [m EXCEPT !.pc = "final", !.finalSent = Append(@, time),
                   !.requests = Append(@, statusParams(m.env, m.wakeTarget))]

\* _monitorServicesForDuration(..., env, wakeTarget, duration), up to the
\* first await
MonitorStart(c, env, wakeTarget, duration) ==
  /\ CanStart(c)
  /\ calls' = [calls EXCEPT ![c] =
                 loopTop([op |-> "monitor", pc |-> "starting", duration |-> duration,
                          env |-> env, wakeTarget |-> wakeTarget, requests |-> <<>>,
                          startTime |-> now, endTime |-> now + duration,
                          pollCount |-> 0, sent |-> <<>>, polls |-> <<>>,
                          finalSent |-> <<>>, finals |-> <<>>, warnings |-> <<>>],
                         now)]
  /\ budget' = [budget EXCEPT !.calls = @ - 1]
  /\ UNCHANGED <<loadVars, registry, rTarget, rEnv, rOut, pOutcome, pHealth, pStatus,
                 serviceStates, lastWakeTime, now>>

\* the status fetch of a poll settles: the rest of the loop body, up to the
\* sleep or, with the budget used up, out of the loop to the final fetch
PollSettle(c, outcome) ==
  /\ calls[c].op = "monitor" /\ calls[c].pc = "polling"
  /\ now' = now + outcome.elapsed
  /\ LET shown == pollShown([calls[c] EXCEPT !.polls = Append(@, outcome.kind)], outcome)
     IN calls' = [calls EXCEPT ![c] =
                    IF shown.pc = "thrown" THEN shown
                    ELSE IF budgetLeft(now', shown.endTime)
                      THEN [shown EXCEPT !.pc = "sleeping"]
                      ELSE loopTop(shown, now')]
  /\ UNCHANGED <<loadVars, registry, rTarget, rEnv, rOut, pOutcome, pHealth, pStatus,
                 serviceStates, lastWakeTime, budget>>

\* the setTimeout of the sleep fires, late ms after it was due
TimerFires(c, late) ==
  /\ calls[c].op = "monitor" /\ calls[c].pc = "sleeping"
  /\ now' = now + pollInterval + late
  /\ calls' = [calls EXCEPT ![c] = loopTop(calls[c], now')]
  /\ UNCHANGED <<loadVars, registry, rTarget, rEnv, rOut, pOutcome, pHealth, pStatus,
                 serviceStates, lastWakeTime, budget>>

\* the final status fetch settles, and the call returns
FinalSettle(c, outcome) ==
  /\ calls[c].op = "monitor" /\ calls[c].pc = "final"
  /\ now' = now + outcome.elapsed
  /\ LET shown == finalShown([calls[c] EXCEPT !.finals = Append(@, outcome.kind)], outcome)
     IN calls' = [calls EXCEPT ![c] =
                    IF shown.pc = "thrown" THEN shown ELSE [shown EXCEPT !.pc = "done"]]
  /\ UNCHANGED <<loadVars, registry, rTarget, rEnv, rOut, pOutcome, pHealth, pStatus,
                 serviceStates, lastWakeTime, budget>>

\* the budgets the loop is run with: none, whole intervals, and one that ends
\* between two polls
MonitorDurations ==
  {0} \cup {k * pollInterval : k \in 1..MaxIntervals}
      \cup {k * pollInterval + STATUS_TIMEOUT : k \in 1..MaxIntervals}

\* the wake targets the loop follows: everything, a service that has a
\* dependency, and a service that has none
MonitorTargets == {TargetAll, TargetName("payment"), TargetName("auth")}

InitMonitor == Fresh(WakeRegistry, 1, 0, {1})

NextMonitor ==
  \E c \in Callers :
    \/ \E wakeTarget \in MonitorTargets, duration \in MonitorDurations :
         MonitorStart(c, "dev", wakeTarget, duration)
    \/ \E outcome \in FetchOutcomes : PollSettle(c, outcome)
    \/ \E late \in {0, 1} : TimerFires(c, late)
    \/ \E outcome \in FetchOutcomes : FinalSettle(c, outcome)

SpecMonitor == InitMonitor /\ [][NextMonitor]_vars

\* every request settles (axios gives up after its timeout) and every timer
\* fires: a step of the loop that can be taken is taken
SpecMonitorFair == SpecMonitor /\ WF_vars(NextMonitor)

(***************************************************************************)
(* utils.retry(fn, maxAttempts, baseDelay) and utils.wait(ms).  The call   *)
(* record of the caller holds the locals of retry, every settlement of fn  *)
(* in invoked and every sleep in waits; fn is any async function: each     *)
(* invocation resolves with a value or rejects with an error.              *)
(***************************************************************************)
TIMEOUT_MAX == 2147483647     \* the longest delay a timer takes: 2^31 - 1 ms

Resolved(value) == [ok |-> TRUE, value |-> value]
Rejected(error) == [ok |-> FALSE, value |-> error]
FnOutcomes == {Resolved("success"), Resolved("again"), Rejected("Fail"),
               Rejected("Always fails")}

\* baseDelay * Math.pow(2, attempt - 1), when a timer takes it.  Kept apart
\* from the timer so that the product is formed only when it fits.
delayFits(baseDelay, attempt) == baseDelay <= TIMEOUT_MAX \div (2 ^ (attempt - 1))

\* wait(baseDelay * Math.pow(2, attempt - 1)): the time setTimeout(resolve, ms)
\* lets pass.  A delay above TIMEOUT_MAX, or below 1, is set to 1.
wait(baseDelay, attempt) ==
  IF delayFits(baseDelay, attempt) /\ baseDelay >= 1
    THEN baseDelay * (2 ^ (attempt - 1))
    ELSE 1

\* a catch that keeps the first error it saw
keepFirstError(lastError, error) == IF lastError = None THEN error ELSE lastError
\* lastError = error
rememberError(lastError, error) == error

\* attempt <= maxAttempts
attemptsLeft(attempt, maxAttempts) == attempt <= maxAttempts

\* an fn result that is not returned: the loop goes on to the next attempt
resultDropped(r, outcome) == [r EXCEPT !.pc = "next"]
\* return await fn()
resultReturned(r, outcome) ==
  [r EXCEPT !.pc = "done", !.ret = [threw |-> FALSE, value |-> outcome.value]]

\* the top of the for loop: fn is called, or the loop is over and lastError is
\* thrown
attemptOrThrow(r) ==
  IF attemptsLeft(r.attempt, r.maxAttempts)
    THEN [r EXCEPT !.pc = "calling"]
    ELSE [r EXCEPT !.pc = "done", !.ret = [threw |-> TRUE, value |-> r.lastError]]

\* retry(fn, maxAttempts, baseDelay), up to the first await
Retry(c, maxAttempts, baseDelay) ==
  /\ CanStart(c)
  /\ calls' = [calls EXCEPT ![c] =
                 attemptOrThrow([op |-> "retry", pc |-> "starting",
                                 maxAttempts |-> maxAttempts, baseDelay |-> baseDelay,
                                 attempt |-> 1, lastError |-> None,
                                 invoked |-> <<>>, waits |-> <<>>, ret |-> Null])]
  /\ budget' = [budget EXCEPT !.calls = @ - 1]
  /\ UNCHANGED <<loadVars, registry, rTarget, rEnv, rOut, pOutcome, pHealth, pStatus,
                 serviceStates, lastWakeTime, now>>

\* fn() settles: the value is returned, or the error is kept and the call
\* sleeps before the next attempt or, after the last one, throws
FnSettles(c, outcome) ==
  /\ calls[c].op = "retry" /\ calls[c].pc = "calling"
  /\ LET r == [calls[c] EXCEPT !.invoked = Append(@, outcome)]
         caught == [r EXCEPT !.lastError = rememberError(@, outcome.value)]
         settled == IF outcome.ok THEN resultReturned(r, outcome) ELSE caught
     IN calls' = [calls EXCEPT ![c] =
                    IF settled.pc = "done" THEN settled
                    ELSE IF settled.attempt < settled.maxAttempts /\ ~outcome.ok
                      THEN [settled EXCEPT !.pc = "waiting"]
                      ELSE attemptOrThrow([settled EXCEPT !.attempt = @ + 1])]
  /\ UNCHANGED <<loadVars, registry, rTarget, rEnv, rOut, pOutcome, pHealth, pStatus,
                 serviceStates, lastWakeTime, now, budget>>

\* the timer of the sleep fires: attempt++, and the loop test
WaitOver(c) ==
  /\ calls[c].op = "retry" /\ calls[c].pc = "waiting"
  /\ LET slept == wait(calls[c].baseDelay, calls[c].attempt)
     IN /\ now' = now + slept
        /\ calls' = [calls EXCEPT ![c] =
                       attemptOrThrow([calls[c] EXCEPT !.waits = Append(@, slept),
                                                       !.attempt = @ + 1])]
  /\ UNCHANGED <<loadVars, registry, rTarget, rEnv, rOut, pOutcome, pHealth, pStatus,
                 serviceStates, lastWakeTime, budget>>

\* the base delays retry is called with: the tests' 10 and 100, the default
\* 1000, and one whose doubling no timer takes
BaseDelays == {10, 100, 1000, 2 ^ 30}

InitRetry == Fresh(ProbeRegistry, 1, 0, {1})

NextRetry ==
  \E c \in Callers :
    \/ \E maxAttempts \in 0..MaxAttempts, baseDelay \in BaseDelays :
         Retry(c, maxAttempts, baseDelay)
    \/ \E outcome \in FnOutcomes : FnSettles(c, outcome)
    \/ WaitOver(c)

SpecRetry == InitRetry /\ [][NextRetry]_vars

(***************************************************************************)
(* The server across registry reloads: POST /api/reload, and the handlers  *)
(* that read the registry between its steps.                               *)
(***************************************************************************)
\* new ServiceRegistry()
ServiceRegistry == [registry |-> Null, services |-> <<>>, lastLoadTime |-> NoTime]

\* REGISTRY_FILE, and the configurations found at that path
REGISTRY_FILE == [base |-> "services", ext |-> ".yaml"]
TwoServices ==
  Root(JObject(<<Prop("dev", JObject(<<Prop("payment", Plain), Prop("auth", Plain)>>))>>))
OneService == Root(JObject(<<Prop("dev", JObject(<<Prop("auth", Plain)>>))>>))
ReloadFiles ==
  {Missing, Unparsable, TwoServices, OneService,
   Root(JObject(<<Prop("dev", JObject(<<Prop("auth", Def(GoodUrl, JUndefined, JUndefined))>>))>>))}

\* the instance the server's `registry` refers to
ServerRegistry == server.heap[server.registry]

\* initialize(): registry = new ServiceRegistry(), its load, orchestrator =
\* new Orchestrator(registry), and the server listens
InitReload ==
  LET out == load(ServiceRegistry, REGISTRY_FILE, TwoServices, 0)
  IN /\ server = [heap |-> <<out.instance>>, registry |-> 1, orchestrator |-> 1]
     /\ registry = out.instance.registry
     /\ serviceIndex = out.instance.services
     /\ lastLoadTime = out.instance.lastLoadTime
     /\ lSource = Null /\ lOut = Null
     /\ rTarget = Null /\ rEnv = None /\ rOut = Null
     /\ pOutcome = Null /\ pHealth = Null /\ pStatus = None
     /\ serviceStates = <<>> /\ lastWakeTime = <<>>
     /\ now = 0
     /\ calls = [c \in Callers |-> NoCall]
     /\ budget = [calls |-> MaxCalls, probes |-> 0, callers |-> Callers]

\* POST /api/reload up to its await: registry = new ServiceRegistry(), and
\* registry.load(REGISTRY_FILE) is started on it
ReloadStart(c) ==
  /\ CanStart(c)
  /\ LET id == Len(server.heap) + 1
     IN /\ server' = [server EXCEPT !.heap = Append(@, ServiceRegistry), !.registry = id]
        /\ calls' = [calls EXCEPT ![c] =
                       [op |-> "reload", pc |-> "loading", instance |-> id, ret |-> Null]]
  /\ budget' = [budget EXCEPT !.calls = @ - 1]
  /\ rTarget' = Null /\ rEnv' = None /\ rOut' = Null
  /\ UNCHANGED <<registry, serviceIndex, lastLoadTime, lSource, lOut, pOutcome, pHealth,
                 pStatus, serviceStates, lastWakeTime, now>>

\* the load of a reload settles, file being what it found at the path: the
\* orchestrator is rebuilt on what `registry` refers to by now and 200 is
\* answered, or the catch answers 500
ReloadSettle(c, file) ==
  /\ calls[c].op = "reload" /\ calls[c].pc = "loading"
  /\ LET id == calls[c].instance
         out == load(server.heap[id], REGISTRY_FILE, file, now + 1)
         heap == [server.heap EXCEPT ![id] = out.instance]
         built == IF out.threw THEN server.orchestrator ELSE server.registry
     IN /\ server' = [server EXCEPT !.heap = heap, !.orchestrator = built]
        /\ registry' = heap[built].registry
        /\ serviceIndex' = heap[built].services
        /\ lastLoadTime' = heap[built].lastLoadTime
        /\ serviceStates' = IF out.threw THEN serviceStates ELSE <<>>
        /\ lastWakeTime' = IF out.threw THEN lastWakeTime ELSE <<>>
        /\ lSource' = [op |-> "load", content |-> file, format |-> REGISTRY_FILE.ext]
        /\ lOut' = [threw |-> out.threw, error |-> out.error]
        /\ calls' = [calls EXCEPT ![c] =
                       Returned(calls[c], [status |-> IF out.threw THEN 500 ELSE 200,
                                           success |-> ~out.threw])]
  /\ now' = now + 1
  /\ rTarget' = Null /\ rEnv' = None /\ rOut' = Null
  /\ UNCHANGED <<pOutcome, pHealth, pStatus, budget>>

\* GET /api/registry?environment=...: registry.getServices(environment), or
\* without the parameter registry.registry.services, which throws on an
\* instance that holds no document
GetRegistry(environment) ==
  /\ rOut = Null
  /\ rTarget' = [kind |-> "registry"]
  /\ rEnv' = environment
  /\ rOut' = IF environment # None
               THEN [threw |-> FALSE, error |-> Null,
                     value |-> getServices(ServerRegistry.registry, environment)]
             ELSE IF ServerRegistry.registry = Null
               THEN [threw |-> TRUE, error |-> Thrown("TypeError", None, None), value |-> Null]
             ELSE [threw |-> FALSE, error |-> Null, value |-> ServerRegistry.registry]
  /\ UNCHANGED <<loadVars, registry, pOutcome, pHealth, pStatus, serviceStates,
                 lastWakeTime, now, calls, budget>>

NextReload ==
  \/ \E c \in Callers : ReloadStart(c)
  \/ \E c \in Callers, file \in ReloadFiles : ReloadSettle(c, file)
  \/ \E environment \in {None, "dev"} : GetRegistry(environment)
  \/ Resolve(TargetAll, "dev")

SpecReload == InitReload /\ [][NextReload]_vars

\* an HTTP response was received for the classified probe
GotResponse == pOutcome # Null /\ pOutcome.service.urlOk /\ pOutcome.outcome.kind = "response"
\* the classified probe ended without any HTTP response
NoResponse == pOutcome # Null /\ ~GotResponse

(***************************************************************************)
(* The dependency graph of an environment, for stating the claims.         *)
(***************************************************************************)
DeclaredIn(reg, environment) ==
  {getServices(reg, environment)[i].name : i \in 1..Len(getServices(reg, environment))}

\* edges dependent -> dependency, between declared services
DependsOn(reg, environment, n) ==
  Range(getService(reg, n, environment).dependsOn) \cap DeclaredIn(reg, environment)

RECURSIVE Closure(_, _, _)
Closure(reg, environment, S) ==
  LET T == S \cup UNION {DependsOn(reg, environment, n) : n \in S}
  IN IF T = S THEN S ELSE Closure(reg, environment, T)

\* the declared services the target names
Roots(reg, target, environment) ==
  LET D == DeclaredIn(reg, environment)
  IN IF target.kind = "all" THEN D
     ELSE IF target.kind = "list" THEN Range(target.names) \cap D
     ELSE {target.name} \cap D

Reachable(reg, target, environment) ==
  Closure(reg, environment, Roots(reg, target, environment))

OnCycle(reg, environment, n) ==
  n \in Closure(reg, environment, DependsOn(reg, environment, n))

CycleReachable(reg, target, environment) ==
  \E n \in Reachable(reg, target, environment) : OnCycle(reg, environment, n)


\* C1: for a target from which no cycle is reachable, resolveWakeOrder returns
\* every service reachable from the target through dependsOn exactly once, and
\* each dependency at a strictly smaller index than its dependents.
C1_OrderIsTopological ==
  (rOut # Null /\ ~CycleReachable(registry, rTarget, rEnv)) =>
     /\ ~rOut.threw
     /\ LET order == NamesOf(rOut.value)
        IN /\ Range(order) = Reachable(registry, rTarget, rEnv)
           /\ \A i, j \in 1..Len(order) : order[i] = order[j] => i = j
           /\ \A n \in Range(order) : \A d \in DependsOn(registry, rEnv, n) :
                 d \in Range(order) /\ IndexOf(order, d) < IndexOf(order, n)
           /\ \A i \in 1..Len(order) : rOut.value[i] = getService(registry, order[i], rEnv)

\* a resolved chain of three: consumer -> payment -> auth comes out auth first
C1_Witness ==
  /\ rOut # Null /\ ~rOut.threw
  /\ rTarget = TargetAll
  /\ Len(rOut.value) = 3
  /\ DependsOn(registry, rEnv, rOut.value[3].name) = {rOut.value[2].name}
  /\ DependsOn(registry, rEnv, rOut.value[2].name) = {rOut.value[1].name}
  /\ NamesOf(rOut.value) # NamesOf(getServices(registry, rEnv))

\* C2: when a cycle (a self-dependency included) is reachable from the target,
\* resolveWakeOrder throws the circular-dependency error, the error names a
\* node on a cycle, and no list is returned.
C2_CycleThrows ==
  (rOut # Null /\ CycleReachable(registry, rTarget, rEnv)) =>
     /\ rOut.threw
     /\ rOut.value = Null
     /\ rOut.error.message = "Circular dependency detected involving"
     /\ rOut.error.node \in Reachable(registry, rTarget, rEnv)
     /\ OnCycle(registry, rEnv, rOut.error.node)

\* the target is not itself on a cycle but depends on a service that is: the
\* error names that service, not the target
C2_Witness ==
  /\ rOut # Null /\ rOut.threw
  /\ rTarget.kind = "name"
  /\ ~OnCycle(registry, rEnv, rTarget.name)
  /\ rOut.error.node # rTarget.name
  /\ OnCycle(registry, rEnv, rOut.error.node)

WakeCalls == {c \in Callers : calls[c].op = "wake"}
ReturnedWakes == {c \in WakeCalls : calls[c].pc = "done"}

\* C3: a wake whose target reaches a dependency cycle returns, in the step
\* that makes the call, a result with success false, the resolver's error and
\* no services; it sends no probe and changes no recorded state and no
\* lastWakeTime.
C3_FailedResolutionIsAResult ==
  [][\A c \in Callers :
       (/\ calls'[c] # calls[c]
        /\ calls'[c].op = "wake"
        /\ CycleReachable(registry, calls'[c].target, calls'[c].environment))
       => /\ calls'[c].pc = "done"
          /\ calls'[c].ret.success = FALSE
          /\ calls'[c].ret.error # Null
          /\ OnCycle(registry, calls'[c].environment, calls'[c].ret.error.node)
          /\ calls'[c].ret.services = <<>>
          /\ calls'[c].issued = <<>>
          /\ budget'.probes = budget.probes
          /\ serviceStates' = serviceStates
          /\ lastWakeTime' = lastWakeTime]_vars

\* a wake failed on a cycle after an earlier wake had recorded states
C3_Witness ==
  \E c \in ReturnedWakes :
    /\ calls[c].ret.success = FALSE
    /\ calls[c].ret.error # Null
    /\ calls[c].target = TargetAll
    /\ \E n \in DOMAIN serviceStates : serviceStates[n] = LIVE
    /\ DOMAIN lastWakeTime # {}

\* C4: within a wake, probes go out one at a time in the resolved order: the
\* probe of service i+1 is sent only when service i's probe has settled and
\* its state and WakeResult are recorded, so every dependency of the service
\* being probed already has its result.
C4_SequentialProbes ==
  \A c \in WakeCalls :
    LET call == calls[c]
        k == Len(call.results)
    IN /\ Len(call.issued) = IF call.pc = "probing" THEN k + 1 ELSE k
       /\ call.issued = NamesOf(SubSeq(call.order, 1, Len(call.issued)))
       /\ \A j \in 1..k :
            /\ call.results[j].name = call.order[j].name
            /\ Get(serviceStates, call.order[j].name, None) = call.results[j].status
       /\ call.pc = "probing" =>
            \A d \in DependsOn(registry, call.environment, call.issued[k + 1]) :
              \E j \in 1..k : call.results[j].name = d

\* the third probe of a chain is in flight, the first two are recorded
C4_Witness ==
  \E c \in WakeCalls :
    /\ calls[c].pc = "probing"
    /\ Len(calls[c].results) = 2
    /\ Len(calls[c].issued) = 3
    /\ DependsOn(registry, calls[c].environment, calls[c].issued[3]) = {calls[c].issued[2]}

\* C5: a wake result with a non-empty services list has success true exactly
\* when every entry of the list has status LIVE.
C5_SuccessIffAllLive ==
  \A c \in ReturnedWakes :
    LET ret == calls[c].ret
    IN ret.services # <<>> =>
         (ret.success <=> \A i \in 1..Len(ret.services) : ret.services[i].status = LIVE)

\* a wake of several services failed although one of them is LIVE
C5_Witness ==
  \E c \in ReturnedWakes :
    /\ Len(calls[c].ret.services) >= 2
    /\ ~calls[c].ret.success
    /\ \E i \in 1..Len(calls[c].ret.services) : calls[c].ret.services[i].status = LIVE

\* the probe answered with a status of 500 or above / below 500
Answered5xx(outcome) == outcome.kind = "response" /\ outcome.status >= 500
AnsweredHealthy(outcome) == outcome.kind = "response" /\ outcome.status < 500

C8_AnyResponseIsLive ==
  pOutcome # Null =>
    /\ GotResponse => pHealth.state = LIVE
    /\ NoResponse => pHealth.state = DEAD

C10_SlowLiveIsWaking ==
  (pOutcome # Null /\ pHealth.state = LIVE
     /\ pHealth.responseTime > HEALTH_CHECK_TIMEOUT) => pStatus = WAKING

\* the probe of this call's j-th service ended without any HTTP response
ProbeFailed(call, j) == call.outcomes[j].kind = "error"
ProbingCalls == {c \in Callers : calls[c].op \in {"wake", "status"}}

\* C11: in wake and getStatus a probe that times out without any HTTP
\* response is reported DEAD, however long it waited, the 10-second socket
\* timeout included.
C11_TimeoutIsDead ==
  \A c \in ProbingCalls :
    \A j \in 1..Len(calls[c].results) :
      (ProbeFailed(calls[c], j) /\ calls[c].outcomes[j].elapsed >= AXIOS_TIMEOUT)
        => calls[c].results[j].status = DEAD

C13_MarkedThenClassified ==
  \A c \in WakeCalls :
    LET call == calls[c]
        k == Len(call.results)
        began(j) == call.results[j].lastWakeTime
    IN /\ Len(call.issued) >= Min(k + 1, Len(call.order))
       /\ call.pc = "probing" =>
            /\ Get(serviceStates, call.issued[k + 1], None) = DEAD
            /\ Get(lastWakeTime, call.issued[k + 1], NoTime) = now
       /\ \A j \in 1..k :
            /\ began(j) = IF j = 1 THEN call.startTime
                                   ELSE began(j - 1) + call.results[j - 1].duration
            /\ Get(lastWakeTime, call.order[j].name, NoTime) = began(j)
            /\ call.results[j].status =
                 checkHealthWithTimeout(call.order[j], call.timeout, call.outcomes[j],
                                        began(j), began(j) + call.results[j].duration).value
            /\ Get(serviceStates, call.order[j].name, None) = call.results[j].status

\* the probe before failed and took time; the next service is marked DEAD with
\* a later timestamp all the same
C13_Witness ==
  \E c \in WakeCalls :
    LET call == calls[c]
        k == Len(call.results)
    IN /\ call.pc = "probing"
       /\ k >= 1
       /\ ProbeFailed(call, k)
       /\ lastWakeTime[call.issued[k + 1]] = now
       /\ now > lastWakeTime[call.issued[k]]
       /\ serviceStates[call.issued[k + 1]] = DEAD

\* C14: a step of getStatus or getHealth, for any service argument and
\* environment, changes no recorded state and no lastWakeTime; the
\* lastWakeTime it reports is the recorded one, null for a service never woken.
C14_QueriesAreReadOnly ==
  [][\A c \in Callers :
       (calls'[c] # calls[c] /\ calls'[c].op \in {"status", "health"})
       => /\ serviceStates' = serviceStates
          /\ lastWakeTime' = lastWakeTime
          /\ \A j \in 1..Len(calls'[c].results) :
               calls'[c].results[j].lastWakeTime =
                 Get(lastWakeTime, calls'[c].results[j].name, NoTime)]_vars

\* a status query answered LIVE for a service whose recorded state, left by an
\* earlier wake, is something else, and reported a never-woken service
C14_Witness ==
  \E c \in Callers :
    /\ calls[c].op = "status" /\ calls[c].pc = "done"
    /\ \E j \in 1..Len(calls[c].results) :
         /\ calls[c].results[j].status = LIVE
         /\ calls[c].results[j].name \in DOMAIN serviceStates
         /\ serviceStates[calls[c].results[j].name] # LIVE
    /\ \E j \in 1..Len(calls[c].results) :
         /\ calls[c].results[j].lastWakeTime = NoTime
         /\ calls[c].results[j].name \notin DOMAIN serviceStates

\* C15: a step of a wake in one environment leaves unchanged the recorded
\* state and the lastWakeTime of every service of any other environment,
\* same-named services included.
C15_StatePerEnvironment ==
  [][\A c \in Callers :
       (calls'[c] # calls[c] /\ calls'[c].op = "wake")
       => \A e \in Envs \ {calls'[c].environment} :
            \A n \in DeclaredIn(registry, e) :
              /\ Get(serviceStates', n, None) = Get(serviceStates, n, None)
              /\ Get(lastWakeTime', n, NoTime) = Get(lastWakeTime, n, NoTime)]_vars

(***************************************************************************)
(* The configuration document as written, for stating the claims.          *)
(***************************************************************************)
LoadedTree == lOut # Null /\ lSource.content \notin {Unparsable, Missing}
IsMapping(x) == x.t = "object"

\* the environments of a document, and the services of one, as declared
SourceEnvs(parsed) ==
  IF IsMapping(parsed) /\ IsMapping(Member(parsed, "services"))
    THEN Member(parsed, "services").props ELSE <<>>
SourceServices(parsed, environment) ==
  IF IsMapping(Member(Member(parsed, "services"), environment))
    THEN Member(Member(parsed, "services"), environment).props ELSE <<>>
SourceNames(parsed, environment) ==
  [i \in 1..Len(SourceServices(parsed, environment)) |->
     SourceServices(parsed, environment)[i].key]
SourceDefs(parsed) ==
  UNION {{SourceServices(parsed, SourceEnvs(parsed)[i].key)[j].value :
            j \in 1..Len(SourceServices(parsed, SourceEnvs(parsed)[i].key))} :
           i \in 1..Len(SourceEnvs(parsed))}

Lacks(def, key) == ~IsMapping(def) \/ Member(def, key) = JUndefined
\* dependsOn is written, with a value (not left empty), and is not a list
DependsOnNotSequence(def) ==
  /\ IsMapping(def)
  /\ Member(def, "dependsOn").t \notin {"undefined", "null", "array"}

ServicesKeyAbsent(parsed) == ~IsMapping(parsed) \/ Member(parsed, "services") = JUndefined
EnvironmentNotMapping(parsed) ==
  \E i \in 1..Len(SourceEnvs(parsed)) : ~IsMapping(SourceEnvs(parsed)[i].value)
Malformed(parsed) ==
  \/ ServicesKeyAbsent(parsed)
  \/ EnvironmentNotMapping(parsed)
  \/ \E def \in SourceDefs(parsed) :
       Lacks(def, "url") \/ Lacks(def, "health") \/ DependsOnNotSequence(def)
\* the one defect of the document is a health path left out
OnlyHealthMissing(parsed) ==
  /\ ~ServicesKeyAbsent(parsed)
  /\ ~EnvironmentNotMapping(parsed)
  /\ \E def \in SourceDefs(parsed) : Lacks(def, "health")
  /\ \A def \in SourceDefs(parsed) : ~Lacks(def, "url") /\ Truthy(Member(def, "url"))

\* C16: a load never succeeds on a document whose services key is absent,
\* one of whose environments is not a mapping (a list, a scalar, null), or one
\* of whose services lacks its url, lacks its health path or has a dependsOn
\* that is present and not a sequence; the error for a missing health path
\* mentions that field.
C16_MalformedIsRejected ==
  (LoadedTree /\ Malformed(lSource.content)) =>
     /\ lOut.threw
     /\ OnlyHealthMissing(lSource.content) =>
          lOut.error.message = "must define a health check endpoint"

\* the registry's environments; none before the first load
EnvsOf(reg) == IF reg = Null THEN {} ELSE DOMAIN reg
IndexedKeys(reg) ==
  UNION {{IndexKey(e, reg[e][i].name) : i \in 1..Len(reg[e])} : e \in EnvsOf(reg)}

\* C17: a load or loadFromString that fails leaves the loaded services, the
\* name index and lastLoadTime as they were (uninitialised, if they were); one
\* that succeeds replaces the three in one step: the services are the
\* document's, the index lists exactly those services, lastLoadTime is the
\* time of the load.
C17_LoadIsAllOrNothing ==
  [][budget'.calls < budget.calls =>
       IF lOut'.threw
         THEN /\ registry' = registry
              /\ serviceIndex' = serviceIndex
              /\ lastLoadTime' = lastLoadTime
         ELSE /\ registry' # Null
              /\ \A e \in EnvsOf(registry') :
                   Range(NamesOf(registry'[e])) = Range(SourceNames(lSource'.content, e))
              /\ DOMAIN serviceIndex' = IndexedKeys(registry')
              /\ lastLoadTime' = now'
              /\ lastLoadTime' > lastLoadTime]_vars

\* a load failed after one that had succeeded, and what that one stored is
\* still there
C17_Witness ==
  /\ lOut # Null /\ lOut.threw
  /\ lOut.error.message = "must define a health check endpoint"
  /\ registry # Null
  /\ DOMAIN serviceIndex = IndexedKeys(registry)
  /\ Cardinality(DOMAIN serviceIndex) >= 2
  /\ lastLoadTime # NoTime /\ lastLoadTime < now

\* the last load succeeded, so the registry holds that document
HoldsLastDocument == LoadedTree /\ ~lOut.threw

\* C18: getServices(environment) returns one definition per service of the
\* environment, each with its name, in the order the configuration declares
\* them, and an empty sequence for an unknown environment; getService(name,
\* environment) returns that definition, or null when the environment does not
\* have the name.
C18_ServicesInDeclaredOrder ==
  (HoldsLastDocument /\ rOut # Null) =>
     /\ rTarget.kind = "getServices" =>
          NamesOf(rOut.value) = SourceNames(lSource.content, rEnv)
     /\ rTarget.kind = "getService" =>
          IF rTarget.name \in Range(SourceNames(lSource.content, rEnv))
            THEN rOut.value # Null /\ rOut.value.name = rTarget.name
            ELSE rOut.value = Null

\* the document's services in the order it declares them
Declaration(parsed) ==
  [e \in {SourceEnvs(parsed)[i].key : i \in 1..Len(SourceEnvs(parsed))} |->
     [j \in 1..Len(SourceServices(parsed, e)) |->
        Service(SourceServices(parsed, e)[j].key,
                dependsOnOf(SourceServices(parsed, e)[j].value),
                urlOkOf(SourceServices(parsed, e)[j].value))]]

\* C19: resolveWakeOrder('all', env) is the depth-first post-order that visits
\* the services in declaration order and each dependsOn list in the order
\* written; when no service of the environment has dependencies it is the
\* declaration order itself.
C19_OrderFollowsDeclaration ==
  (HoldsLastDocument /\ rOut # Null /\ rTarget.kind = "all") =>
     /\ rOut = resolveWakeOrder(Declaration(lSource.content), TargetAll, rEnv)
     /\ (\A i \in 1..Len(getServices(registry, rEnv)) :
           getServices(registry, rEnv)[i].dependsOn = <<>>)
          => NamesOf(rOut.value) = SourceNames(lSource.content, rEnv)

\* a dependsOn name the environment does not declare is reachable from the target
UnresolvedReachable(reg, target, environment) ==
  \E n \in Reachable(reg, target, environment) :
    Range(getService(reg, n, environment).dependsOn) \ DeclaredIn(reg, environment) # {}

\* C20: a dependsOn name that the environment does not declare raises no
\* error and contributes no entry: the result holds exactly the declared
\* services reachable from the target, dependencies first, and when a cycle
\* makes the call throw, the error names a declared service.
C20_UnresolvedDependencySkipped ==
  (rOut # Null /\ UnresolvedReachable(registry, rTarget, rEnv)) =>
     IF rOut.threw
       THEN /\ CycleReachable(registry, rTarget, rEnv)
            /\ rOut.error.node \in DeclaredIn(registry, rEnv)
       ELSE /\ Range(NamesOf(rOut.value)) = Reachable(registry, rTarget, rEnv)
            /\ Len(rOut.value) = Cardinality(Reachable(registry, rTarget, rEnv))
            /\ \A i, j \in 1..Len(rOut.value) :
                 rOut.value[j].name \in Range(rOut.value[i].dependsOn) => j < i

\* a service lists an undeclared name before a declared one: the undeclared
\* one is dropped, the declared one still comes first
C20_Witness ==
  /\ rOut # Null /\ ~rOut.threw
  /\ Len(rOut.value) >= 2
  /\ \E i \in 1..Len(rOut.value) :
       /\ Len(rOut.value[i].dependsOn) = 2
       /\ rOut.value[i].dependsOn[1] \notin DeclaredIn(registry, rEnv)
       /\ rOut.value[i].dependsOn[2] = rOut.value[1].name
       /\ i > 1

(***************************************************************************)
(* dependsOn names that the environment does not declare, from the load    *)
(* of the document to the resolution of the wake order.                    *)
(***************************************************************************)
\* every service of the document has a url, a health path and, if any, a
\* dependsOn sequence, and the format is one the loader reads
WellFormed(source) ==
  /\ ~Malformed(source.content)
  /\ \A def \in SourceDefs(source.content) :
       Truthy(Member(def, "url")) /\ Truthy(Member(def, "health"))
  /\ source.format \in {"yaml", "json", ".yaml", ".yml", ".json"}

\* some dependsOn sequence of the document names a service that its
\* environment does not declare
DeclaresUnresolved(parsed) ==
  \E i \in 1..Len(SourceEnvs(parsed)) :
    \E j \in 1..Len(SourceServices(parsed, SourceEnvs(parsed)[i].key)) :
      LET def == SourceServices(parsed, SourceEnvs(parsed)[i].key)[j].value
      IN /\ IsMapping(def)
         /\ Member(def, "dependsOn").t = "array"
         /\ Range(Member(def, "dependsOn").items)
              \ Range(SourceNames(parsed, SourceEnvs(parsed)[i].key)) # {}

\* C21 as stated: a registry that was accepted with a
\* dependsOn entry naming no service of the environment makes
\* resolveWakeOrder fail once that entry is reached.
C21_UnresolvedDependencyFails ==
  (HoldsLastDocument /\ rOut # Null /\ rTarget.kind = "all"
     /\ UnresolvedReachable(registry, rTarget, rEnv)) => rOut.threw

\* C21, amended: a document that is well-formed apart from dependsOn entries naming no
\* service of the environment is accepted by the load, and resolveWakeOrder
\* on the loaded registry does not fail because of them: it fails exactly
\* when a cycle among declared services is reachable, and otherwise returns
\* the declared services only.
C21_UnresolvedAcceptedThenSkipped ==
  (LoadedTree /\ WellFormed(lSource) /\ DeclaresUnresolved(lSource.content)) =>
     /\ ~lOut.threw
     /\ (rOut # Null /\ rTarget.kind = "all") =>
          /\ rOut.threw <=> CycleReachable(registry, rTarget, rEnv)
          /\ ~rOut.threw =>
               Range(NamesOf(rOut.value)) = Range(SourceNames(lSource.content, rEnv))

\* a loaded document lists an undeclared name, and the wake order was
\* resolved over it without an error
C21_Witness ==
  /\ LoadedTree /\ WellFormed(lSource) /\ DeclaresUnresolved(lSource.content)
  /\ rOut # Null /\ rTarget.kind = "all" /\ ~rOut.threw
  /\ UnresolvedReachable(registry, rTarget, rEnv)
  /\ Len(rOut.value) >= 2

\* C22: for a single declared service name as target, whenever
\* resolveWakeOrder returns, the result holds that service, every service it
\* transitively depends on within the environment, each once, and no service
\* outside that closure; the named service comes last.  The call throws only
\* when a cycle lies inside that closure.
C22_SingleTargetIsItsClosure ==
  (rOut # Null /\ rTarget.kind = "name" /\ rTarget.name \in DeclaredIn(registry, rEnv)) =>
     IF rOut.threw
       THEN \E n \in Closure(registry, rEnv, {rTarget.name}) : OnCycle(registry, rEnv, n)
       ELSE /\ Range(NamesOf(rOut.value)) = Closure(registry, rEnv, {rTarget.name})
            /\ Len(rOut.value) = Cardinality(Closure(registry, rEnv, {rTarget.name}))
            /\ rOut.value[Len(rOut.value)].name = rTarget.name
            /\ \A i \in 1..Len(rOut.value) :
                 rOut.value[i] = getService(registry, rOut.value[i].name, rEnv)

\* a service with one dependency was the target, in an environment that also
\* declares a service outside its closure: two of the three are returned
C22_Witness ==
  /\ rOut # Null /\ ~rOut.threw /\ rTarget.kind = "name"
  /\ Len(rOut.value) = 2
  /\ Cardinality(DeclaredIn(registry, rEnv)) = 3
  /\ rOut.value[1].name \in Range(rOut.value[2].dependsOn)
  /\ \E n \in DeclaredIn(registry, rEnv) :
       /\ n \notin Range(NamesOf(rOut.value))
       /\ rTarget.name \in DependsOn(registry, rEnv, n)

\* the returned wakes whose target is the name of a group of the registry
GroupWakes ==
  {c \in ReturnedWakes : /\ calls[c].target.kind = "name"
                         /\ calls[c].target.name \in DOMAIN Groups}

\* C23: a wake whose target is the name of a group wakes the member services
\* of the group in dependency order: when no cycle is reachable from the
\* members, the result has an entry for every member, and the entry of a
\* member comes after the entries of the services it depends on.
C23_GroupWakesItsMembers ==
  \A c \in GroupWakes :
    LET members == TargetList(Groups[calls[c].target.name])
        woken == NamesOf(calls[c].ret.services)
    IN ~CycleReachable(registry, members, calls[c].environment) =>
         /\ Roots(registry, members, calls[c].environment) \subseteq Range(woken)
         /\ \A i, j \in 1..Len(woken) :
              woken[j] \in DependsOn(registry, calls[c].environment, woken[i]) => j < i

\* C24: a wake whose target names a service that the environment does not
\* declare returns a failed result: success false, with an error.
C24_UnknownTargetFails ==
  \A c \in ReturnedWakes :
    (/\ calls[c].target.kind = "name"
     /\ calls[c].target.name \notin DOMAIN Groups
     /\ calls[c].target.name \notin DeclaredIn(registry, calls[c].environment)) =>
       /\ ~calls[c].ret.success
       /\ calls[c].ret.error # Null

\* what the caller of resolveWakeOrder gets from a logged call
Outcome(call) == [threw |-> call.threw, error |-> call.error, value |-> call.value]

\* C25: a resolveWakeOrder call, whatever its target and whatever calls came
\* before it, leaves the loaded registry, the name index and lastLoadTime as
\* they were, and gives what every earlier call with the same target and
\* environment gave on that registry; in particular every
\* resolveWakeOrder('all', env) returns the same sequence of services.
C25_ResolveIsRepeatable ==
  [][/\ registry' = registry
     /\ serviceIndex' = serviceIndex
     /\ lastLoadTime' = lastLoadTime
     /\ \A i \in 1..Len(rOut) :
          (rTarget'[i] = rTarget'[Len(rOut')] /\ rEnv'[i] = rEnv'[Len(rOut')]) =>
             Outcome(rOut'[i]) = Outcome(rOut'[Len(rOut')])]_vars

\* 'all' was resolved, then a single service, then 'all' again, over three
\* services that are not declared in dependency order
C25_Witness ==
  /\ Len(rOut) = 3
  /\ rTarget[1] = TargetAll /\ rTarget[2].kind = "name" /\ rTarget[3] = TargetAll
  /\ ~rOut[1].threw /\ ~rOut[3].threw
  /\ Len(rOut[2].value) >= 1
  /\ Len(rOut[3].value) = 3
  /\ NamesOf(rOut[3].value) # NamesOf(getServices(registry, "dev"))

\* the time at which a wake wrote the classification of its j-th service:
\* its start plus the durations of its entries up to that one
RECURSIVE WrittenAt(_, _)
WrittenAt(call, j) ==
  IF j = 0 THEN call.startTime ELSE WrittenAt(call, j - 1) + call.results[j].duration

\* two wakes were made, one by each caller, and both have returned
BothReturned ==
  /\ ReturnedWakes = Callers
  /\ budget.calls = MaxCalls - 2

\* C26: for any interleaving of two wakes at their probe awaits, a returned
\* wake has one entry per service of its order; and once both have returned,
\* the recorded state of every service they probed is the status of the entry
\* that was written last for that service, by either wake.
C26_LastWriterWins ==
  /\ \A c \in ReturnedWakes :
       NamesOf(calls[c].ret.services) = NamesOf(calls[c].order)
  /\ BothReturned =>
       \A n \in UNION {Range(calls[c].issued) : c \in Callers} :
         \E c \in Callers : \E j \in 1..Len(calls[c].results) :
           /\ calls[c].results[j].name = n
           /\ serviceStates[n] = calls[c].results[j].status
           /\ \A d \in Callers : \A k \in 1..Len(calls[d].results) :
                calls[d].results[k].name = n =>
                  WrittenAt(calls[d], k) <= WrittenAt(calls[c], j)

\* both wakes were in flight on the same service at once: the second started
\* before the first had classified auth, they classified it differently, and
\* DEAD is not among the classifications
C26_Witness ==
  /\ BothReturned
  /\ calls[1].startTime < WrittenAt(calls[2], 1)
  /\ calls[2].startTime < WrittenAt(calls[1], 1)
  /\ Len(calls[1].results) = 2 /\ Len(calls[2].results) = 2
  /\ calls[1].results[1].status = LIVE
  /\ calls[2].results[1].status = WAKING
  /\ WrittenAt(calls[2], 1) <= WrittenAt(calls[1], 1)
  /\ serviceStates[calls[1].results[1].name] = LIVE

(***************************************************************************)
(* The monitor loop, for stating the claims.                               *)
(***************************************************************************)
Monitors == {c \in Callers : calls[c].op = "monitor"}
Last(s) == s[Len(s)]

\* C27: when the status fetch of a poll fails (it is rejected, times out, or
\* its body cannot be shown), the loop logs one warning for it and goes on:
\* to the sleep before the next poll while the budget is not used up, and
\* otherwise out of the loop to the final fetch.  The loop is never left, and
\* the call never ended, before the budget has elapsed.
C27_LoopSurvivesPollFailure ==
  [][\A c \in Callers :
       /\ (/\ calls[c].op = "monitor" /\ calls[c].pc = "polling"
           /\ calls'[c] # calls[c]
           /\ Last(calls'[c].polls) # "answered") =>
             /\ calls'[c].warnings = Append(calls[c].warnings, "Status check failed")
             /\ calls'[c].pc = IF now' < calls[c].endTime THEN "sleeping" ELSE "final"
             /\ calls'[c].pollCount = calls[c].pollCount
       /\ (calls[c].op = "monitor" /\ calls[c].pc = "sleeping" /\ calls'[c] # calls[c]) =>
             IF now' < calls[c].endTime
               THEN /\ calls'[c].pc = "polling"
                    /\ calls'[c].pollCount = calls[c].pollCount + 1
               ELSE calls'[c].pc = "final"
       /\ (calls'[c].op = "monitor" /\ calls'[c].pc \notin {"polling", "sleeping"}) =>
             now' >= calls'[c].endTime]_vars

\* a poll failed, the loop slept, and the poll after it was answered
C27_Witness ==
  \E c \in Monitors :
    /\ Len(calls[c].polls) >= 3
    /\ calls[c].polls[1] = "rejected"
    /\ calls[c].polls[2] = "malformed"
    /\ calls[c].polls[3] = "answered"
    /\ Len(calls[c].warnings) = 2
    /\ calls[c].pc = "sleeping"

\* C28: the monitor loop always returns.  A poll is sent only while the
\* budget has not elapsed, and each poll after the first at least one poll
\* interval after the one before it, so that a budget of k intervals sees at
\* most k + 1 polls; once the budget has elapsed exactly one more fetch is
\* sent, and the call returns when it settles, whether it was answered or
\* failed (then with one more warning).
C28_LoopTerminates ==
  /\ [](\A c \in Monitors :
          /\ \A i \in 1..Len(calls[c].sent) :
               /\ calls[c].sent[i] < calls[c].endTime
               /\ i > 1 => calls[c].sent[i] >= calls[c].sent[i - 1] + pollInterval
          /\ Len(calls[c].sent) = calls[c].pollCount
          /\ (calls[c].pollCount - 1) * pollInterval < calls[c].duration
               \/ calls[c].pollCount = 0
          /\ \A i \in 1..Len(calls[c].finalSent) : calls[c].finalSent[i] >= calls[c].endTime
          /\ Len(calls[c].finalSent) = IF calls[c].pc \in {"final", "done"} THEN 1 ELSE 0
          /\ calls[c].pc = "done" =>
               /\ Len(calls[c].finals) = 1
               /\ Len(calls[c].polls) = calls[c].pollCount
               /\ (calls[c].finals[1] # "answered") =>
                    Last(calls[c].warnings) = "Could not fetch final status")
  /\ [](\A c \in Callers : calls[c].op = "monitor" => <>(calls[c].pc = "done"))

\* the loop polled for the whole budget and returned after a final fetch
\* that failed
C28_Witness ==
  \E c \in Monitors :
    /\ calls[c].pc = "done"
    /\ calls[c].pollCount >= 3
    /\ calls[c].finals = <<"rejected">>
    /\ Last(calls[c].warnings) = "Could not fetch final status"
    /\ Last(calls[c].polls) = "answered"

\* C29: a wake contacts a service only once every service of its order that
\* the service depends on has been classified LIVE: payment only after auth
\* is LIVE, consumer only after payment is LIVE.
C29_DependentWaitsForReady ==
  \A c \in WakeCalls :
    \A j \in 1..Len(calls[c].issued) : \A k \in 1..(j - 1) :
      calls[c].order[k].name \in Range(calls[c].order[j].dependsOn) =>
        /\ k <= Len(calls[c].results)
        /\ calls[c].results[k].status = LIVE

\* C30: no probe lasts longer than the timeout its caller gave: in wake the
\* timeoutSeconds of the call, in getStatus 5 seconds.
C30_ProbeBoundedByCallerTimeout ==
  \A c \in ProbingCalls :
    \A j \in 1..Len(calls[c].outcomes) :
      calls[c].outcomes[j].elapsed <= calls[c].timeout * 1000

(***************************************************************************)
(* utils.retry, for stating the claims.                                    *)
(***************************************************************************)
Retries == {c \in Callers : calls[c].op = "retry"}
ReturnedRetries == {c \in Retries : calls[c].pc = "done"}
AllRejected(r) == \A i \in 1..Len(r.invoked) : ~r.invoked[i].ok

\* C31: retry returns the result of the first invocation of fn that
\* succeeds: when the k-th invocation is the first to succeed, k is at most
\* maxAttempts, the call returns at once with the k-th result, and fn has
\* been invoked exactly k times; no invocation ever follows a success, and
\* retry returns nothing but a result of fn.
C31_FirstSuccessIsReturned ==
  \A c \in Retries :
    LET r == calls[c]
    IN /\ \A i \in 1..(Len(r.invoked) - 1) : ~r.invoked[i].ok
       /\ Len(r.invoked) <= r.maxAttempts
       /\ (r.invoked # <<>> /\ Last(r.invoked).ok) =>
             /\ r.pc = "done"
             /\ r.ret = [threw |-> FALSE, value |-> Last(r.invoked).value]
       /\ (r.pc = "done" /\ ~r.ret.threw) => (r.invoked # <<>> /\ Last(r.invoked).ok)

\* fn failed twice and succeeded on the third attempt, as in the test suite
C31_Witness ==
  \E c \in ReturnedRetries :
    /\ Len(calls[c].invoked) = 3
    /\ ~calls[c].invoked[1].ok /\ ~calls[c].invoked[2].ok
    /\ calls[c].invoked[3] = Resolved("success")
    /\ calls[c].ret = [threw |-> FALSE, value |-> "success"]
    /\ Len(calls[c].waits) = 2

\* C32: when every invocation of fn fails, retry invokes fn exactly
\* maxAttempts times and then throws the error of the last invocation; it
\* throws only then, and never invokes fn more than maxAttempts times.
C32_ExhaustedThrowsLastError ==
  \A c \in Retries :
    LET r == calls[c]
    IN /\ Len(r.invoked) <= r.maxAttempts
       /\ (r.pc = "done" /\ AllRejected(r)) =>
             /\ Len(r.invoked) = r.maxAttempts
             /\ r.ret.threw
             /\ r.maxAttempts >= 1 => r.ret.value = Last(r.invoked).value
       /\ (r.pc = "done" /\ r.ret.threw) => AllRejected(r)
       /\ (AllRejected(r) /\ Len(r.invoked) = r.maxAttempts) => r.pc = "done"

\* three attempts failed with different errors, and the last one was thrown
C32_Witness ==
  \E c \in ReturnedRetries :
    /\ calls[c].maxAttempts = 3
    /\ calls[c].invoked = <<Rejected("Fail"), Rejected("Fail"), Rejected("Always fails")>>
    /\ calls[c].ret = [threw |-> TRUE, value |-> "Always fails"]

\* C39: the n-th sleep of a retry lasts baseDelay * 2^(n-1) milliseconds;
\* there is one sleep after each failed attempt but the last, and none after
\* a success.
C39_BackoffIsExponential ==
  \A c \in Retries :
    LET r == calls[c]
    IN /\ \A n \in 1..Len(r.waits) :
            /\ r.waits[n] % (2 ^ (n - 1)) = 0
            /\ r.waits[n] \div (2 ^ (n - 1)) = r.baseDelay
       /\ r.pc = "done" =>
            Len(r.waits) = Len(r.invoked) - (IF r.invoked = <<>> THEN 0 ELSE 1)

ClassifiedAlone(op, service, outcome) ==
  IF op = "health"
    THEN performHealthCheck(service, outcome, 0, outcome.elapsed).state
    ELSE checkHealthWithTimeout(service, 5, outcome, 0, outcome.elapsed).value

\* C34: the state that wake, getStatus or getHealth reports for a service is
\* a function of the outcome of the probe just made (the status code or the
\* failure, and the response time): it is that function's value whatever
\* state was recorded for the service before.
C34_ReportDependsOnProbeOnly ==
  \A c \in Callers :
    calls[c].op \in {"wake", "status", "health"} =>
      \A j \in 1..Len(calls[c].results) :
        calls[c].results[j].status =
          ClassifiedAlone(calls[c].op, calls[c].order[j], calls[c].outcomes[j])

\* a getStatus found no answer from a service that a wake had recorded LIVE,
\* and reported it DEAD
C34_Witness ==
  \E c \in Callers :
    /\ calls[c].op = "status" /\ calls[c].pc = "done"
    /\ Len(calls[c].results) = 1
    /\ calls[c].results[1].status = DEAD
    /\ Get(serviceStates, calls[c].results[1].name, None) = LIVE

Concrete == {LIVE, WAKING, DEAD}

\* C38: every entry of a wake result and of a getStatus result, and every
\* state recorded in serviceStates, is LIVE, WAKING or DEAD, whatever the
\* probes gave: a 5xx answer, which the raw probe calls FAILED, comes out
\* WAKING, and an exception of the probe comes out DEAD or WAKING.
C38_OnlyConcreteStates ==
  /\ \A c \in ProbingCalls :
       \A j \in 1..Len(calls[c].results) : calls[c].results[j].status \in Concrete
  /\ \A n \in DOMAIN serviceStates : serviceStates[n] \in Concrete
  /\ pStatus \in Concrete \cup {None}

\* a wake returned after a 5xx answer, which the raw probe classifies FAILED,
\* and a probe that was refused
C38_Witness ==
  \E c \in ReturnedWakes :
    /\ Len(calls[c].results) = 3
    /\ Answered5xx(calls[c].outcomes[1])
    /\ performHealthCheck(calls[c].order[1], calls[c].outcomes[1], 0, 1).state = FAILED
    /\ calls[c].results[1].status = WAKING
    /\ calls[c].outcomes[2].kind = "error"
    /\ calls[c].results[2].status = DEAD
    /\ serviceStates[calls[c].results[1].name] = WAKING

\* C37: the lastWakeTime of every entry of a wake is the time at which that
\* same call marked the service before probing it, however the other callers'
\* wakes of the same service are interleaved with it.
C37_EntryCarriesOwnWakeTime ==
  \A c \in WakeCalls : \A j \in 1..Len(calls[c].results) :
    calls[c].results[j].lastWakeTime = WrittenAt(calls[c], j - 1)

\* the services a status request of the monitor makes the server probe and
\* return: the selection of getStatus for the request's query
Queried(params) == NamesOf(servicesOf(registry, params.service, params.environment))

\* C35: when the wake that the monitor follows had a single service as its
\* target, every status request of the monitor queries the services of that
\* target (the service and its dependencies), not every service of the
\* environment.
C35_PollsFollowTheWakeTarget ==
  \A c \in Monitors :
    calls[c].wakeTarget.kind = "name" =>
      \A k \in 1..Len(calls[c].requests) :
        Range(Queried(calls[c].requests[k]))
          = Range(NamesOf(resolveWakeOrder(registry, calls[c].wakeTarget, calls[c].env).value))

\* C36: at every point where a request handler can run, the server's registry
\* is a successfully loaded registry and the orchestrator was built on that
\* same instance: also while a reload awaits its load, and after a reload
\* whose load failed.
C36_ServesLoadedRegistry ==
  /\ ServerRegistry.lastLoadTime # NoTime
  /\ ServerRegistry.registry # Null
  /\ server.orchestrator = server.registry

====
